---- MODULE Spec2Model ----
(***************************************************************************)
(* A model of the aether-build engine: the plugin hook pipeline            *)
(* (src/src/plugins.ts), the dependency resolver                           *)
(* (src/src/utils/dependency.ts) and the build orchestrator                *)
(* (src/src/build.ts).                                                     *)
(*                                                                         *)
(* Strings of the program that are taken apart by the code (specifiers,    *)
(* paths) are modelled as sequences of tokens:                             *)
(*   a specifier  "./util"           is  <<".", "/", "util">>              *)
(*                "https://cdn/x.js" is  <<"https:", "//", "cdn", "/",     *)
(*                                         "x.js">>                        *)
(*   a path       "/proj/src/a.ts"   is  <<"proj", "src", "a.ts">>         *)
(* The value undefined of an optional path is the empty sequence, which is *)
(* falsy like undefined and "" are in the code's tests.                    *)
(***************************************************************************)
EXTENDS Integers, Sequences, FiniteSets, TLC

VARIABLES
  hook,     \* the applyPluginHook call in progress: its loop position and result
  rs,       \* one resolveModuleSpecifier call: its arguments and what it returned
  fs,       \* the filesystem the build reads: path -> content
  ctx,      \* the BuilderContext of the build() call
  stack,    \* the processFile calls in progress, innermost last
  pc,       \* the position of build()
  events,   \* what the build did so far: hook invocations, stores, file writes
  written,  \* the files the build wrote: path -> content
  srv,      \* the DevServer: listener, watcher, sockets, requests and events in flight
  page      \* the page running the HMR client: its registries and messages in flight

vars == <<hook, rs, fs, ctx, stack, pc, events, written, srv, page>>

\* ------------------------------------------------------------------------
\* Bounds of the model
\* ------------------------------------------------------------------------
MaxPlugins == 2
MaxEntries == 2
MaxHookPlugins == 3

\* ------------------------------------------------------------------------
\* Paths (node:path) and the filesystem (node:fs)
\* ------------------------------------------------------------------------
NoPath == <<>>

Last(s) == s[Len(s)]

Front(s) == SubSeq(s, 1, Len(s) - 1)

\* path.normalize on the segments of an absolute path: "." is dropped and
\* ".." removes the segment before it (".." at the root stays at the root).
RECURSIVE Normalize(_, _)
Normalize(segs, acc) ==
  IF segs = <<>> THEN acc
  ELSE IF Head(segs) = "." THEN Normalize(Tail(segs), acc)
  ELSE IF Head(segs) = ".."
    THEN Normalize(Tail(segs), IF acc = <<>> THEN acc ELSE Front(acc))
  ELSE Normalize(Tail(segs), Append(acc, Head(segs)))

\* The segments of a specifier: its tokens without the separators.
Segs(specifier) == SelectSeq(specifier, LAMBDA t : t \notin {"/", "//"})

\* path.dirname of an absolute path.
Dirname(path) == IF path = <<>> THEN <<>> ELSE Front(path)

\* path.join(basedir, specifier): concatenate, then normalize.
Join(basedir, specifier) == Normalize(basedir \o Segs(specifier), <<>>)

\* `${path}${ext}`: the extension is appended to the last segment.
WithExt(path, ext) ==
  IF path = <<>> THEN <<ext>> ELSE Append(Front(path), Last(path) \o ext)

\* The directories a set of files implies (every proper prefix, and the root).
DirsOf(files) ==
  UNION { { SubSeq(f, 1, n) : n \in 0..(Len(f) - 1) } : f \in files }

\* The path p is a directory above the file f.
IsPrefix(p, f) == Len(p) < Len(f) /\ SubSeq(f, 1, Len(p)) = p

\* fs.existsSync: true of a file and of a directory alike.
ExistsSync(files, path) ==
  LET p == Normalize(path, <<>>)
  IN  p \in files \/ \E f \in files : IsPrefix(p, f)

\* process.cwd()
Cwd == <<"proj">>

SrcDir == <<"proj", "src">>

\* ------------------------------------------------------------------------
\* String tests on specifiers
\* ------------------------------------------------------------------------
\* The prefixes of a first token that the code tests for.
PrefixesOf(tok) ==
  CASE tok = "http:"  -> {"http:"}
    [] tok = "https:" -> {"https:"}
    [] tok = "//"     -> {"//", "/"}
    [] tok = "/"      -> {"/"}
    [] tok = "."      -> {"."}
    [] tok = ".."     -> {"."}
    [] OTHER          -> {}

\* specifier.startsWith(prefix)
StartsWith(specifier, prefix) ==
  Len(specifier) > 0 /\ prefix \in PrefixesOf(specifier[1])

\* specifier.includes(':')
IncludesColon(specifier) ==
  \E i \in 1..Len(specifier) : specifier[i] \in {"http:", "https:", "node:"}

\* path.isAbsolute(specifier)
IsAbsolute(specifier) == StartsWith(specifier, "/")

\* ------------------------------------------------------------------------
\* The dependency resolver (src/src/utils/dependency.ts)
\* ------------------------------------------------------------------------
\* config.alias is either undefined (here the empty table) or an object
\* literal whose own properties map specifiers to targets.
NoAlias == [t \in {} |-> <<>>]

\* The properties every object literal inherits from Object.prototype.
InheritedMembers == {"constructor", "toString", "valueOf", "hasOwnProperty"}

\* The value of an inherited property: a function, which is truthy.
ObjectMember == <<"function">>

\* config.alias && config.alias[specifier]: the property lookup finds the
\* table's own entry, else what the table inherits, else undefined (<<>>).
AliasLookup(config, specifier) ==
  IF DOMAIN config.alias = {} THEN <<>>
  ELSE IF specifier \in DOMAIN config.alias THEN config.alias[specifier]
  ELSE IF Len(specifier) = 1 /\ specifier[1] \in InheritedMembers THEN ObjectMember
  ELSE <<>>

\* if (config.alias && config.alias[specifier]): the value found is truthy.
AliasHit(config, specifier) == AliasLookup(config, specifier) # <<>>

DefaultExtensions == <<".ts", ".tsx", ".js", ".jsx", ".json">>

\* config.resolve?.extensions || [defaults]; <<>> stands for an absent list.
Extensions(config) ==
  IF config.extensions = <<>> THEN DefaultExtensions ELSE config.extensions

CandidatesExtensionsFirst(specifier, basedir, config) ==
  LET absoluteSpecifier ==
        IF IsAbsolute(specifier) THEN Segs(specifier) ELSE Join(basedir, specifier)
      extensions == Extensions(config)
  IN  [i \in 1..Len(extensions) |-> WithExt(absoluteSpecifier, extensions[i])]
        \o <<absoluteSpecifier>>
        \o [i \in 1..Len(extensions) |->
              Append(absoluteSpecifier, "index" \o extensions[i])]

\* The candidates resolveWithExtensions probes, in the order it probes them.
Candidates(specifier, basedir, config) ==
  LET absoluteSpecifier ==
        IF IsAbsolute(specifier) THEN Segs(specifier) ELSE Join(basedir, specifier)
      extensions == Extensions(config)
  IN  <<absoluteSpecifier>>
        \o [i \in 1..Len(extensions) |-> WithExt(absoluteSpecifier, extensions[i])]
        \o [i \in 1..Len(extensions) |->
              Append(absoluteSpecifier, "index" \o extensions[i])]

\* The probing loop: existsSync on each candidate until one exists.
RECURSIVE Probe(_, _, _, _)
Probe(files, cands, i, probes) ==
  IF i > Len(cands) THEN [resolved |-> NoPath, probes |-> probes]
  ELSE IF ExistsSync(files, cands[i])
    THEN [resolved |-> cands[i], probes |-> Append(probes, cands[i])]
  ELSE Probe(files, cands, i + 1, Append(probes, cands[i]))

resolveWithExtensions(specifier, basedir, config, files) ==
  Probe(files, Candidates(specifier, basedir, config), 1, <<>>)

\* plugin.resolveId(resolveContext): a plugin resolves the one source it
\* knows (plugin.resolveFrom) to plugin.resolveTo and returns null otherwise.
CallResolveId(plugin, resolveContext) ==
  IF resolveContext.source = plugin.resolveFrom THEN plugin.resolveTo ELSE NoPath

RECURSIVE ResolveByPluginsNoBreak(_, _, _, _)
ResolveByPluginsNoBreak(plugins, i, resolveContext, calls) ==
  IF i > Len(plugins) THEN [resolved |-> NoPath, calls |-> calls]
  ELSE IF "resolveId" \notin plugins[i].hooks
    THEN ResolveByPluginsNoBreak(plugins, i + 1, resolveContext, calls)
  ELSE LET resolved == CallResolveId(plugins[i], resolveContext)
           made == Append(calls, [plugin |-> i,
                                  source |-> resolveContext.source,
                                  importer |-> resolveContext.importer])
           rest == ResolveByPluginsNoBreak(plugins, i + 1, resolveContext, made)
       IN  IF rest.resolved # NoPath \/ resolved = NoPath
             THEN rest
             ELSE [resolved |-> resolved, calls |-> rest.calls]

\* The loop over the plugins' resolveId hooks; calls is the log of the
\* invocations made, each with the context it was given.
RECURSIVE ResolveByPlugins(_, _, _, _)
ResolveByPlugins(plugins, i, resolveContext, calls) ==
  IF i > Len(plugins) THEN [resolved |-> NoPath, calls |-> calls]
  ELSE IF "resolveId" \notin plugins[i].hooks
    THEN ResolveByPlugins(plugins, i + 1, resolveContext, calls)
  ELSE LET resolved == CallResolveId(plugins[i], resolveContext)
           made == Append(calls, [plugin |-> i,
                                  source |-> resolveContext.source,
                                  importer |-> resolveContext.importer])
       IN  IF resolved # NoPath
             THEN [resolved |-> resolved, calls |-> made]
             ELSE ResolveByPlugins(plugins, i + 1, resolveContext, made)

\* The source handed to the plugins and to the filesystem probing once a
\* specifier was found not to be external.
ResolveSource(specifier, depInfoId) == specifier

\* resolveModuleSpecifier: the DependencyInfo it returns, with the resolveId
\* invocations (calls) and the existsSync probes it made on the way.
resolveModuleSpecifier(specifier, importer, config, plugins, files) ==
  LET external(id) == [id |-> id, resolved |-> NoPath, isExternal |-> TRUE,
                       calls |-> <<>>, probes |-> <<>>]
  IN
  IF \/ StartsWith(specifier, "http:")
     \/ StartsWith(specifier, "https:")
     \/ StartsWith(specifier, "//")
    THEN external(specifier)
  ELSE
    LET bare == /\ ~StartsWith(specifier, ".")
                /\ ~StartsWith(specifier, "/")
                /\ ~IncludesColon(specifier)
        aliased == bare /\ AliasHit(config, specifier)
        id == IF aliased THEN AliasLookup(config, specifier) ELSE specifier
    IN
    IF bare /\ ~aliased THEN external(specifier)
    ELSE
      LET source == ResolveSource(specifier, id)
          byPlugins == ResolveByPlugins(plugins, 1,
                         [importer |-> importer, source |-> source], <<>>)
          basedir == IF importer # NoPath THEN Dirname(importer) ELSE Cwd
          byFiles == IF byPlugins.resolved = NoPath
                       THEN resolveWithExtensions(source, basedir, config, files)
                       ELSE [resolved |-> NoPath, probes |-> <<>>]
      IN  [id |-> id,
           resolved |-> IF byPlugins.resolved # NoPath
                          THEN byPlugins.resolved ELSE byFiles.resolved,
           isExternal |-> FALSE,
           calls |-> byPlugins.calls,
           probes |-> byFiles.probes]

\* The DependencyInfo alone.
DepInfo(r) == [id |-> r.id, resolved |-> r.resolved, isExternal |-> r.isExternal]

\* ------------------------------------------------------------------------
\* Plugins (src/src/plugins.ts, interface Plugin)
\* ------------------------------------------------------------------------
\* A plugin: its name, the hooks it defines, what its transform hook returns
\* (null, undefined, the empty string, a string of code, an object {code, map}
\* or an object {code}), and the one source its resolveId hook resolves.
Plugin(name, hooks, returns, resolveFrom, resolveTo) ==
  [name |-> name, hooks |-> hooks, returns |-> returns,
   resolveFrom |-> resolveFrom, resolveTo |-> resolveTo]

Null == [v |-> "null", by |-> 0]

Undefined == [v |-> "undefined", by |-> 0]

\* What the hook hookName of plugin number i returns when it does not throw:
\* a value-returning hook returns the plugin's value, tagged with the plugin
\* that made it; the effect-only hooks return nothing.
HookResult(plugin, i, hookName) ==
  IF hookName = "transform"
    THEN IF plugin.returns \in {"null", "undefined"}
           THEN [v |-> plugin.returns, by |-> 0]
           ELSE [v |-> plugin.returns, by |-> i]
    ELSE Undefined

\* ------------------------------------------------------------------------
\* applyPluginHook (src/src/plugins.ts)
\* ------------------------------------------------------------------------
HookIdle ==
  [plugins |-> <<>>, hookName |-> "", i |-> 0, result |-> Null,
   state |-> "idle", calls |-> <<>>, thrownBy |-> 0]

\* The call applyPluginHook(plugins, hookName, context) at its first line.
HookBegin(plugins, hookName) ==
  [plugins |-> plugins, hookName |-> hookName, i |-> 1, result |-> Null,
   state |-> "running", calls |-> <<>>, thrownBy |-> 0]

FoldResultFirstWins(result, hookResult) ==
  IF result = Null /\ hookResult # Null /\ hookResult # Undefined
    THEN hookResult ELSE result

\* if (hookResult !== null && hookResult !== undefined) result = hookResult
FoldResult(result, hookResult) ==
  IF hookResult # Null /\ hookResult # Undefined THEN hookResult ELSE result

\* The hook of plugin h.i returned hookResult.
AfterReturn(h, hookResult) ==
  [h EXCEPT !.calls = Append(@, h.i),
            !.result = FoldResult(@, hookResult),
            !.i = @ + 1]

AfterThrowSwallowed(h) ==
  [h EXCEPT !.calls = Append(@, h.i), !.i = @ + 1]

\* The hook of plugin h.i threw: the catch block logs and rethrows.
AfterThrow(h) ==
  [h EXCEPT !.calls = Append(@, h.i), !.state = "thrown", !.thrownBy = h.i]

HookRunning == hook.state = "running" /\ hook.i <= Len(hook.plugins)

\* An entry of the history: plugin number `plugin` had its hook invoked
\* (for transform: on the module filePath).
Invoked(hookName, plugin, filePath, threw) ==
  [type |-> "hook", hook |-> hookName, plugin |-> plugin, filePath |-> filePath,
   threw |-> threw]

\* typeof hook !== 'function': the plugin is passed over.
HookSkip ==
  /\ HookRunning
  /\ hook.hookName \notin hook.plugins[hook.i].hooks
  /\ hook' = [hook EXCEPT !.i = @ + 1]
  /\ UNCHANGED <<srv, page, rs, fs, ctx, stack, pc, events, written>>

\* await hook(context) returns.
HookCall ==
  /\ HookRunning
  /\ hook.hookName \in hook.plugins[hook.i].hooks
  /\ hook' = AfterReturn(hook, HookResult(hook.plugins[hook.i], hook.i, hook.hookName))
  /\ events' = Append(events, Invoked(hook.hookName, hook.i, NoPath, FALSE))
  /\ UNCHANGED <<srv, page, rs, fs, ctx, stack, pc, written>>

\* await hook(context) throws.
HookThrow ==
  /\ HookRunning
  /\ hook.hookName \in hook.plugins[hook.i].hooks
  /\ hook' = AfterThrow(hook)
  /\ events' = Append(events, Invoked(hook.hookName, hook.i, NoPath, TRUE))
  /\ UNCHANGED <<srv, page, rs, fs, ctx, stack, pc, written>>

\* return result
HookReturn ==
  /\ hook.state = "running"
  /\ hook.i > Len(hook.plugins)
  /\ hook' = [hook EXCEPT !.state = "returned"]
  /\ UNCHANGED <<srv, page, rs, fs, ctx, stack, pc, events, written>>

\* ------------------------------------------------------------------------
\* The build orchestrator (src/src/build.ts): processFile
\* ------------------------------------------------------------------------
\* A source text is the sequence of its statements; a statement is the
\* specifier it imports, or <<>> when it imports nothing. The empty text is
\* the empty sequence.
NoImport == <<>>

\* The statement "//# sourceMappingURL=..." that writeOutputs appends.
SourceMapComment == <<"//#", "sourceMappingURL=">>

\* new Set(...) then [...imports]: the distinct elements in first-seen order.
RECURSIVE Distinct(_, _)
Distinct(s, acc) ==
  IF s = <<>> THEN acc
  ELSE IF \E k \in 1..Len(acc) : acc[k] = Head(s)
    THEN Distinct(Tail(s), acc)
    ELSE Distinct(Tail(s), Append(acc, Head(s)))

\* extractImports(code): the specifiers the statements import.
extractImports(text) ==
  Distinct(SelectSeq(text, LAMBDA st : st \notin {NoImport, SourceMapComment}), <<>>)

\* processDependencies(filePath, content, config, plugins)
processDependencies(filePath, text, config, plugins, files) ==
  LET imports == extractImports(text)
  IN  [k \in 1..Len(imports) |->
         DepInfo(resolveModuleSpecifier(imports[k], filePath, config, plugins, files))]

\* A Map, as the sequence of its entries in insertion order.
MapKeys(m) == { m[k].filePath : k \in 1..Len(m) }

MapGet(m, filePath) ==
  m[CHOOSE k \in 1..Len(m) : m[k].filePath = filePath]

\* Map.prototype.set: an existing key keeps its place.
MapSet(m, filePath, code, map) ==
  LET entry == [filePath |-> filePath, code |-> code, map |-> map]
  IN  IF filePath \in MapKeys(m)
        THEN [k \in 1..Len(m) |-> IF m[k].filePath = filePath THEN entry ELSE m[k]]
        ELSE Append(m, entry)

\* deps = ctx.dependencies.get(importedBy) || new Set(); deps.add(filePath);
\* ctx.dependencies.set(importedBy, deps) -- only if (importedBy).
AddDependency(dependencies, importedBy, filePath) ==
  IF importedBy = NoPath THEN dependencies
  ELSE LET deps == IF importedBy \in DOMAIN dependencies
                     THEN dependencies[importedBy] ELSE {}
       IN  (importedBy :> (deps \cup {filePath})) @@ dependencies

AlreadyProcessedNever(processed, filePath) == FALSE

\* ctx.processed.has(filePath)
AlreadyProcessed(processed, filePath) == filePath \in processed

\* fileExists(filePath) ? readFile(filePath) : '' -- a directory exists, and
\* reading it throws.
ReadThrows(files, filePath) == \E f \in DOMAIN files : IsPrefix(filePath, f)

ReadContent(files, filePath) ==
  IF filePath \in DOMAIN files THEN files[filePath] ELSE <<>>

\* A processFile call suspended in its transform loop, at processDependencies
\* or in its loop over the dependencies.
Frame(filePath, content) ==
  [filePath |-> filePath, content |-> content,
   code |-> [text |-> content, by |-> 0], map |-> 0,
   i |-> 1, dependencies |-> <<>>, d |-> 1, at |-> "transform"]

EnterFileNoBackEdge(c, files, filePath, importedBy) ==
  IF AlreadyProcessed(c.processed, filePath)
    THEN [ctx |-> c, goes |-> "return"]
  ELSE
    LET marked == [c EXCEPT !.processed = @ \cup {filePath},
                            !.dependencies = AddDependency(@, importedBy, filePath)]
    IN  IF ReadThrows(files, filePath) THEN [ctx |-> marked, goes |-> "throw"]
        ELSE IF ReadContent(files, filePath) = <<>>
          THEN [ctx |-> marked, goes |-> "return"]
        ELSE [ctx |-> marked, goes |-> "transform"]

EnterFileNoSkip(c, files, filePath, importedBy) ==
  IF AlreadyProcessed(c.processed, filePath)
    THEN [ctx |-> [c EXCEPT !.dependencies = AddDependency(@, importedBy, filePath)],
          goes |-> "return"]
  ELSE
    LET marked == [c EXCEPT !.processed = @ \cup {filePath},
                            !.dependencies = AddDependency(@, importedBy, filePath)]
    IN  IF ReadThrows(files, filePath) THEN [ctx |-> marked, goes |-> "throw"]
        ELSE [ctx |-> marked, goes |-> "transform"]

\* processFile(ctx, filePath, importedBy) up to its first await: the context
\* it leaves and how it goes on ("return", "throw" or "transform").
EnterFile(c, files, filePath, importedBy) ==
  IF AlreadyProcessed(c.processed, filePath)
    THEN [ctx |-> [c EXCEPT !.dependencies = AddDependency(@, importedBy, filePath)],
          goes |-> "return"]
  ELSE
    LET marked == [c EXCEPT !.processed = @ \cup {filePath},
                            !.dependencies = AddDependency(@, importedBy, filePath)]
    IN  IF ReadThrows(files, filePath) THEN [ctx |-> marked, goes |-> "throw"]
        ELSE IF ReadContent(files, filePath) = <<>>
          THEN [ctx |-> marked, goes |-> "return"]
        ELSE [ctx |-> marked, goes |-> "transform"]

\* The stack after the call: a frame is pushed when the callee suspends.
Called(stk, files, filePath, goes) ==
  IF goes = "transform"
    THEN Append(stk, Frame(filePath, ReadContent(files, filePath)))
    ELSE stk

\* if (result) { typeof result === 'string' ? code = result
\*               : (code = result.code, map = result.map || map) }
\* The code a plugin returns has the statements of the code it was given.
TransformResult(frame, plugin, i) ==
  CASE plugin.returns = "code" ->
         [frame EXCEPT !.code = [text |-> frame.code.text, by |-> i]]
    [] plugin.returns = "object" ->
         [frame EXCEPT !.code = [text |-> frame.code.text, by |-> i], !.map = i]
    [] plugin.returns = "objectNoMap" ->
         [frame EXCEPT !.code = [text |-> frame.code.text, by |-> i]]
    [] OTHER -> frame

Top == stack[Len(stack)]

SetTop(frame) == [stack EXCEPT ![Len(stack)] = frame]

Failed == [at |-> "failed", n |-> 0]

InTransform ==
  /\ pc.at = "entries"
  /\ stack # <<>>
  /\ Top.at = "transform"
  /\ Top.i <= Len(ctx.plugins)

\* if (plugin.transform) is false: the plugin is passed over.
TransformSkip ==
  /\ InTransform
  /\ "transform" \notin ctx.plugins[Top.i].hooks
  /\ stack' = SetTop([Top EXCEPT !.i = @ + 1])
  /\ UNCHANGED <<srv, page, hook, rs, fs, ctx, pc, events, written>>

\* await plugin.transform({config, filePath, content, code, map}) returns.
TransformCall ==
  /\ InTransform
  /\ "transform" \in ctx.plugins[Top.i].hooks
  /\ stack' = SetTop([TransformResult(Top, ctx.plugins[Top.i], Top.i)
                        EXCEPT !.i = @ + 1])
  /\ events' = Append(events, Invoked("transform", Top.i, Top.filePath, FALSE))
  /\ UNCHANGED <<srv, page, hook, rs, fs, ctx, pc, written>>

TransformThrowSwallowed ==
  /\ InTransform
  /\ "transform" \in ctx.plugins[Top.i].hooks
  /\ events' = Append(events, Invoked("transform", Top.i, Top.filePath, TRUE))
  /\ stack' = SetTop([Top EXCEPT !.i = @ + 1])
  /\ UNCHANGED <<srv, page, hook, rs, fs, ctx, pc, written>>

\* await plugin.transform(...) throws: logged and rethrown, through every
\* processFile call in progress and out of build().
TransformThrow ==
  /\ InTransform
  /\ "transform" \in ctx.plugins[Top.i].hooks
  /\ events' = Append(events, Invoked("transform", Top.i, Top.filePath, TRUE))
  /\ pc' = Failed
  /\ stack' = <<>>
  /\ UNCHANGED <<srv, page, hook, rs, fs, ctx, written>>

Stored(filePath) ==
  [type |-> "store", hook |-> "", plugin |-> 0, filePath |-> filePath,
   threw |-> FALSE]

\* ctx.outputs.set(filePath, {code, map})
StoreOutput ==
  /\ pc.at = "entries"
  /\ stack # <<>>
  /\ Top.at = "transform"
  /\ Top.i > Len(ctx.plugins)
  /\ ctx' = [ctx EXCEPT !.outputs = MapSet(@, Top.filePath, Top.code, Top.map)]
  /\ stack' = SetTop([Top EXCEPT !.at = "deps"])
  /\ events' = Append(events, Stored(Top.filePath))
  /\ UNCHANGED <<srv, page, hook, rs, fs, pc, written>>

AtDependencies == pc.at = "entries" /\ stack # <<>> /\ Top.at = "deps"

\* await processDependencies(filePath, code, ctx.config, ctx.plugins) in the
\* innermost processFile call.
DependenciesOfTop ==
  processDependencies(Top.filePath, Top.code.text, ctx.config, ctx.plugins, DOMAIN fs)

\* dependencies = await processDependencies(filePath, code, config, plugins);
\* ctx.moduleGraph.set(filePath, dependencies)
ProcessDependencies ==
  /\ AtDependencies
  /\ ctx' = [ctx EXCEPT !.moduleGraph = (Top.filePath :> DependenciesOfTop) @@ @]
  /\ stack' = SetTop([Top EXCEPT !.dependencies = DependenciesOfTop,
                                 !.d = 1, !.at = "recurse"])
  /\ UNCHANGED <<srv, page, hook, rs, fs, pc, events, written>>

InRecurse ==
  /\ pc.at = "entries"
  /\ stack # <<>>
  /\ Top.at = "recurse"
  /\ Top.d <= Len(Top.dependencies)

TraversedAlways(dep) == TRUE

TraversedUnlessExternal(dep) == ~dep.isExternal

\* if (dep.resolved && !dep.isExternal)
Traversed(dep) == dep.resolved # NoPath /\ ~dep.isExternal

\* The dependency is not resolved or is external: nothing is done for it.
DepSkip ==
  /\ InRecurse
  /\ ~Traversed(Top.dependencies[Top.d])
  /\ stack' = SetTop([Top EXCEPT !.d = @ + 1])
  /\ UNCHANGED <<srv, page, hook, rs, fs, ctx, pc, events, written>>

\* await processFile(ctx, dep.resolved, filePath)
DepCall ==
  /\ InRecurse
  /\ Traversed(Top.dependencies[Top.d])
  /\ LET dep == Top.dependencies[Top.d]
         e == EnterFile(ctx, fs, dep.resolved, Top.filePath)
     IN  /\ ctx' = e.ctx
         /\ IF e.goes = "throw"
              THEN pc' = Failed /\ stack' = <<>>
              ELSE /\ pc' = pc
                   /\ stack' = Called(SetTop([Top EXCEPT !.d = @ + 1]), fs,
                                      dep.resolved, e.goes)
  /\ UNCHANGED <<srv, page, hook, rs, fs, events, written>>

\* The loop over the dependencies is over: processFile returns.
FileReturn ==
  /\ pc.at = "entries"
  /\ stack # <<>>
  /\ Top.at = "recurse"
  /\ Top.d > Len(Top.dependencies)
  /\ stack' = Front(stack)
  /\ UNCHANGED <<srv, page, hook, rs, fs, ctx, pc, events, written>>

\* ------------------------------------------------------------------------
\* The build orchestrator (src/src/build.ts): build and writeOutputs
\* ------------------------------------------------------------------------
\* path.resolve(process.cwd(), e)
PathResolve(cwd, e) ==
  IF IsAbsolute(e) THEN Normalize(Segs(e), <<>>) ELSE Join(cwd, e)

EntryIsValidAlways(entry) == TRUE

\* resolveEntryPoints(config): a string, an array or an object of paths
\* gives the list of the resolved paths; anything else throws.
EntryIsValid(entry) == entry.kind \in {"string", "array", "object"}

resolveEntryPoints(config) ==
  [k \in 1..Len(config.entry.paths) |-> PathResolve(Cwd, config.entry.paths[k])]

\* The BuilderContext createBuilderContext returns.
createBuilderContext(config) ==
  [config |-> config,
   plugins |-> config.plugins,
   entryPoints |-> resolveEntryPoints(config),
   outputs |-> <<>>,
   processed |-> {},
   dependencies |-> <<>>,
   moduleGraph |-> <<>>]

\* The context before createBuilderContext ran.
NoContext(config) ==
  [config |-> config, plugins |-> <<>>, entryPoints |-> <<>>, outputs |-> <<>>,
   processed |-> {}, dependencies |-> <<>>, moduleGraph |-> <<>>]

\* const ctx = await createBuilderContext(config);
\* await applyPluginHook(ctx.plugins, 'buildStart', { config })
BuildCreate ==
  /\ pc.at = "create"
  /\ IF EntryIsValid(ctx.config.entry)
       THEN /\ ctx' = createBuilderContext(ctx.config)
            /\ hook' = HookBegin(ctx.config.plugins, "buildStart")
            /\ pc' = [at |-> "buildStart", n |-> 0]
       ELSE /\ pc' = Failed
            /\ UNCHANGED <<ctx, hook>>
  /\ UNCHANGED <<srv, page, rs, fs, stack, events, written>>

\* applyPluginHook threw: build() throws.
BuildHookThrown ==
  /\ pc.at \in {"buildStart", "buildEnd"}
  /\ hook.state = "thrown"
  /\ pc' = Failed
  /\ UNCHANGED <<srv, page, hook, rs, fs, ctx, stack, events, written>>

BuildStartNotAwaited ==
  /\ pc.at = "buildStart"
  /\ hook.state \in {"running", "returned"}
  /\ pc' = [at |-> "entries", n |-> 1]
  /\ UNCHANGED <<srv, page, hook, rs, fs, ctx, stack, events, written>>

\* The buildStart hooks are over: the loop over the entry points begins.
BuildStartReturned ==
  /\ pc.at = "buildStart"
  /\ hook.state = "returned"
  /\ pc' = [at |-> "entries", n |-> 1]
  /\ UNCHANGED <<srv, page, hook, rs, fs, ctx, stack, events, written>>

Entered(entryPoint) ==
  [type |-> "entry", hook |-> "", plugin |-> 0, filePath |-> entryPoint,
   threw |-> FALSE]

\* for (const entryPoint of ctx.entryPoints) await processFile(ctx, entryPoint)
EntryStep ==
  /\ pc.at = "entries"
  /\ stack = <<>>
  /\ pc.n <= Len(ctx.entryPoints)
  /\ LET entryPoint == ctx.entryPoints[pc.n]
         e == EnterFile(ctx, fs, entryPoint, NoPath)
     IN  /\ ctx' = e.ctx
         /\ IF e.goes = "throw"
              THEN pc' = Failed /\ stack' = <<>>
              ELSE /\ pc' = [pc EXCEPT !.n = @ + 1]
                   /\ stack' = Called(stack, fs, entryPoint, e.goes)
         /\ events' = Append(events, Entered(entryPoint))
  /\ UNCHANGED <<srv, page, hook, rs, fs, written>>

\* await applyPluginHook(ctx.plugins, 'buildEnd', {config, outputs})
EntriesDone ==
  /\ pc.at = "entries"
  /\ stack = <<>>
  /\ pc.n > Len(ctx.entryPoints)
  /\ hook' = HookBegin(ctx.plugins, "buildEnd")
  /\ pc' = [at |-> "buildEnd", n |-> 0]
  /\ UNCHANGED <<srv, page, rs, fs, ctx, stack, events, written>>

\* path.relative(from, to) on normalized absolute paths.
RECURSIVE Relative(_, _)
Relative(from, to) ==
  IF from # <<>> /\ to # <<>> /\ Head(from) = Head(to)
    THEN Relative(Tail(from), Tail(to))
    ELSE [k \in 1..Len(from) |-> ".."] \o to

\* finalPath.replace(/\.tsx?$/, '.js') on a name that ends in .ts or .tsx.
JsName(name) ==
  CASE name = "index.ts" -> "index.js"
    [] name = "a.ts"     -> "a.js"
    [] name = "b.ts"     -> "b.js"
    [] name = "util.ts"  -> "util.js"
    [] name = "a.tsx"    -> "a.js"
    [] OTHER             -> name

\* The path writeOutputs writes the module filePath to.
FinalPath(config, filePath) ==
  LET outDirPath == PathResolve(Cwd, config.outDir)
      relPath == Relative(Cwd, filePath)
      outputPath == Normalize(outDirPath \o relPath, <<>>)
  IN  IF outputPath = <<>> THEN outputPath
      ELSE Append(Front(outputPath), JsName(Last(outputPath)))

MapPath(finalPath) == WithExt(finalPath, ".map")

Wrote(path) ==
  [type |-> "write", hook |-> "", plugin |-> 0, filePath |-> path, threw |-> FALSE]

\* code.includes('//# sourceMappingURL=')
HasSourceMapComment(code) ==
  \E k \in 1..Len(code.text) : code.text[k] = SourceMapComment

\* The loop of writeOutputs from entry k on: the files on disk and the
\* history after it.
RECURSIVE WriteFrom(_, _, _, _, _)
WriteFrom(config, outputs, k, disk, history) ==
  IF k > Len(outputs) THEN [written |-> disk, events |-> history]
  ELSE
    LET entry == outputs[k]
        finalPath == FinalPath(config, entry.filePath)
        withCode == (finalPath :> [kind |-> "code", code |-> entry.code]) @@ disk
        mapped == entry.map # 0 /\ config.sourcemap
        mapPath == MapPath(finalPath)
        withMap == (mapPath :> [kind |-> "map", code |-> [text |-> <<>>, by |-> entry.map]])
                     @@ withCode
        appended == [entry.code EXCEPT !.text = Append(@, SourceMapComment)]
        withComment == (finalPath :> [kind |-> "code", code |-> appended]) @@ withMap
    IN  IF ~mapped
          THEN WriteFrom(config, outputs, k + 1, withCode,
                         Append(history, Wrote(finalPath)))
        ELSE IF HasSourceMapComment(entry.code)
          THEN WriteFrom(config, outputs, k + 1, withMap,
                         history \o <<Wrote(finalPath), Wrote(mapPath)>>)
        ELSE WriteFrom(config, outputs, k + 1, withComment,
                       history \o <<Wrote(finalPath), Wrote(mapPath), Wrote(finalPath)>>)

AtWriteOutputs == pc.at = "buildEnd" /\ hook.state = "returned"

\* writeOutputs(ctx): the files on disk and the history after it.
writeOutputs == WriteFrom(ctx.config, ctx.outputs, 1, written, events)

\* The buildEnd hooks are over: await writeOutputs(ctx)
WriteOutputs ==
  /\ AtWriteOutputs
  /\ written' = writeOutputs.written
  /\ events' = writeOutputs.events
  /\ pc' = [at |-> "closeBundle", n |-> 1]
  /\ UNCHANGED <<srv, page, hook, rs, fs, ctx, stack>>

InCloseBundle == pc.at = "closeBundle" /\ pc.n <= Len(ctx.plugins)

\* if (plugin.closeBundle) is false
CloseBundleSkip ==
  /\ InCloseBundle
  /\ "closeBundle" \notin ctx.plugins[pc.n].hooks
  /\ pc' = [pc EXCEPT !.n = @ + 1]
  /\ UNCHANGED <<srv, page, hook, rs, fs, ctx, stack, events, written>>

\* await plugin.closeBundle() returns.
CloseBundleCall ==
  /\ InCloseBundle
  /\ "closeBundle" \in ctx.plugins[pc.n].hooks
  /\ events' = Append(events, Invoked("closeBundle", pc.n, NoPath, FALSE))
  /\ pc' = [pc EXCEPT !.n = @ + 1]
  /\ UNCHANGED <<srv, page, hook, rs, fs, ctx, stack, written>>

\* await plugin.closeBundle() throws: build() throws.
CloseBundleThrow ==
  /\ InCloseBundle
  /\ "closeBundle" \in ctx.plugins[pc.n].hooks
  /\ events' = Append(events, Invoked("closeBundle", pc.n, NoPath, TRUE))
  /\ pc' = Failed
  /\ UNCHANGED <<srv, page, hook, rs, fs, ctx, stack, written>>

\* build() returns.
BuildDone ==
  /\ pc.at = "closeBundle"
  /\ pc.n > Len(ctx.plugins)
  /\ pc' = [at |-> "done", n |-> 0]
  /\ UNCHANGED <<srv, page, hook, rs, fs, ctx, stack, events, written>>

\* ------------------------------------------------------------------------
\* Sequences over a set, up to a length
\* ------------------------------------------------------------------------
SeqsUpTo(S, n) == UNION { [1..k -> S] : k \in 0..n }

\* ------------------------------------------------------------------------
\* The state of the parts that are not running
\* ------------------------------------------------------------------------
ResolveIdle == <<>>

ServerIdle == <<>>

PageIdle == <<>>

BuildIdle ==
  /\ fs = <<>>
  /\ ctx = <<>>
  /\ stack = <<>>
  /\ pc = [at |-> "idle", n |-> 0]
  /\ events = <<>>
  /\ written = <<>>

buildVars == <<fs, ctx, stack, pc, events, written>>

\* ------------------------------------------------------------------------
\* Specification of one applyPluginHook call on any plugin list
\* ------------------------------------------------------------------------
HookPlugins ==
  { Plugin("none", {}, "null", NoPath, NoPath) } \cup
  { Plugin(r, {"transform"}, r, NoPath, NoPath) :
      r \in {"null", "undefined", "", "code", "object"} }

InitHook ==
  /\ \E plugins \in SeqsUpTo(HookPlugins, MaxHookPlugins) :
       hook = HookBegin(plugins, "transform")
  /\ rs = ResolveIdle
  /\ BuildIdle
  /\ srv = ServerIdle
  /\ page = PageIdle

NextHook == HookSkip \/ HookCall \/ HookThrow \/ HookReturn

SpecHook == InitHook /\ [][NextHook]_vars

\* ------------------------------------------------------------------------
\* Specification of one build() call on any project
\* ------------------------------------------------------------------------
IndexTs == SrcDir \o <<"index.ts">>

ATs == SrcDir \o <<"a.ts">>

BTs == SrcDir \o <<"b.ts">>

LibIndexTs == SrcDir \o <<"lib", "index.ts">>

RelA == <<".", "/", "a">>

RelB == <<".", "/", "b">>

RelIndex == <<".", "/", "index">>

RelNope == <<".", "/", "nope">>

RelLib == <<".", "/", "lib">>

Lodash == <<"lodash">>

AliasedA == <<"@a">>

CdnUrl == <<"https:", "//", "cdn", "/", "x.js">>

Missing == <<"missing">>

\* What each source file may hold (Missing: the file does not exist).
IndexContents ==
  { <<RelA, Lodash, RelNope, NoImport, RelB, RelA>>,
    <<RelLib, RelA>> }

AContents == { Missing, <<>>, <<RelB>>, <<RelIndex, RelB>> }

BContents == { Missing, <<NoImport>>, <<RelA>>, <<CdnUrl, RelA, AliasedA>> }

Project(index, a, b) ==
  [p \in {IndexTs, LibIndexTs}
        \cup (IF a = Missing THEN {} ELSE {ATs})
        \cup (IF b = Missing THEN {} ELSE {BTs}) |->
     CASE p = IndexTs -> index
       [] p = LibIndexTs -> <<NoImport>>
       [] p = ATs -> a
       [] p = BTs -> b]

Projects ==
  { Project(index, a, b) : index \in IndexContents, a \in AContents, b \in BContents }

EntryIndex == <<".", "/", "src", "/", "index.ts">>

EntryA == <<".", "/", "src", "/", "a.ts">>

EntryConfigs ==
  { [kind |-> "string", paths |-> <<EntryIndex>>],
    [kind |-> "object", paths |-> <<EntryIndex, EntryA>>],
    [kind |-> "invalid", paths |-> <<>>] }
  \cup { [kind |-> "array", paths |-> paths] :
           paths \in SeqsUpTo({EntryIndex, EntryA}, MaxEntries) \ {<<>>} }

BuildPlugins ==
  { Plugin("ts", {"buildStart", "transform", "buildEnd", "closeBundle"},
           "object", NoPath, NoPath),
    Plugin("react", {"transform"}, "code", NoPath, NoPath),
    Plugin("virtual", {"resolveId", "closeBundle"}, "null", RelNope, BTs) }

BuildConfigs ==
  { [entry |-> entry, plugins |-> plugins, outDir |-> <<".", "/", "dist">>,
     alias |-> [t \in {AliasedA} |-> RelA], extensions |-> <<>>,
     sourcemap |-> sourcemap] :
      entry \in EntryConfigs, plugins \in SeqsUpTo(BuildPlugins, MaxPlugins),
      sourcemap \in BOOLEAN }

Init ==
  /\ fs \in Projects
  /\ \E config \in BuildConfigs : ctx = NoContext(config)
  /\ stack = <<>>
  /\ pc = [at |-> "create", n |-> 0]
  /\ events = <<>>
  /\ written = <<>>
  /\ hook = HookIdle
  /\ rs = ResolveIdle
  /\ srv = ServerIdle
  /\ page = PageIdle

Next ==
  \/ BuildCreate
  \/ HookSkip
  \/ HookCall
  \/ HookThrow
  \/ HookReturn
  \/ BuildHookThrown
  \/ BuildStartReturned
  \/ EntryStep
  \/ TransformSkip
  \/ TransformCall
  \/ TransformThrow
  \/ StoreOutput
  \/ ProcessDependencies
  \/ DepSkip
  \/ DepCall
  \/ FileReturn
  \/ EntriesDone
  \/ WriteOutputs
  \/ CloseBundleSkip
  \/ CloseBundleCall
  \/ CloseBundleThrow
  \/ BuildDone

Spec == Init /\ [][Next]_vars

\* Some step of the build can be taken.
CanStep ==
  \/ AtDependencies
  \/ AtWriteOutputs
  \/ ENABLED (\/ BuildCreate \/ HookSkip \/ HookCall \/ HookThrow \/ HookReturn
              \/ BuildHookThrown \/ BuildStartReturned \/ EntryStep
              \/ TransformSkip \/ TransformCall \/ TransformThrow \/ StoreOutput
              \/ DepSkip \/ DepCall \/ FileReturn \/ EntriesDone
              \/ CloseBundleSkip \/ CloseBundleCall \/ CloseBundleThrow \/ BuildDone)

\* ------------------------------------------------------------------------
\* Specification of one resolveModuleSpecifier call on any input
\* ------------------------------------------------------------------------
RelUtil == <<".", "/", "util">>

AliasedUtil == <<"@util">>

Specifiers ==
  { RelUtil,
    <<".", "/", "util.ts">>,
    <<"..", "/", "src", "/", "util">>,
    <<"/", "proj", "/", "src", "/", "util.ts">>,
    <<"lodash">>,
    <<"constructor">>,
    AliasedUtil,
    <<"node:", "fs">>,
    <<"http:", "//", "cdn", "/", "x.js">>,
    <<"https:", "//", "cdn", "/", "x.js">>,
    <<"//", "cdn", "/", "x.js">> }

\* The files a resolution may find, besides the importer itself.
ProbedFiles ==
  { SrcDir \o <<"util">>,
    SrcDir \o <<"util.ts">>,
    SrcDir \o <<"util.js">>,
    SrcDir \o <<"util", "index.ts">>,
    SrcDir \o <<"util", "index.js">> }

\* No file is also a directory.
Consistent(paths) == paths \cap DirsOf(paths) = {}

Filesystems ==
  { F \cup {IndexTs} : F \in { G \in SUBSET ProbedFiles : Consistent(G) } }

VirtualUtil == <<"virtual", "util.js">>

OtherUtil == <<"virtual", "other.js">>

ResolvePlugins ==
  { Plugin("plain", {}, "null", NoPath, NoPath),
    Plugin("never", {"resolveId"}, "null", NoPath, NoPath),
    Plugin("virtual", {"resolveId"}, "null", RelUtil, VirtualUtil),
    Plugin("other", {"resolveId"}, "null", RelUtil, OtherUtil) }

Configs ==
  { [alias |-> a, extensions |-> e] :
      a \in { NoAlias, [t \in {AliasedUtil} |-> RelUtil] },
      e \in { <<>>, <<".ts", ".js">>, <<".js", ".ts">> } }

InitResolve ==
  /\ \E specifier \in Specifiers, importer \in {IndexTs, NoPath},
        config \in Configs, files \in Filesystems,
        plugins \in SeqsUpTo(ResolvePlugins, MaxPlugins) :
       rs = [specifier |-> specifier, importer |-> importer, config |-> config,
             plugins |-> plugins, files |-> files, out |-> <<>>]
  /\ hook = HookIdle
  /\ BuildIdle
  /\ srv = ServerIdle
  /\ page = PageIdle

\* await resolveModuleSpecifier(specifier, importer, config, plugins)
Resolve ==
  /\ rs # ResolveIdle
  /\ rs.out = <<>>
  /\ rs' = [rs EXCEPT !.out = <<resolveModuleSpecifier(
                rs.specifier, rs.importer, rs.config, rs.plugins, rs.files)>>]
  /\ UNCHANGED <<srv, page, hook, buildVars>>

NextResolve == Resolve

SpecResolve == InitResolve /\ [][NextResolve]_vars

\* The plugins of hook.plugins whose transform hook returns a value that is
\* neither null nor undefined.
Valued ==
  { i \in 1..Len(hook.plugins) :
      /\ "transform" \in hook.plugins[i].hooks
      /\ hook.plugins[i].returns \notin {"null", "undefined"} }

Max(S) == CHOOSE m \in S : \A n \in S : n <= m

\* C3: applyPluginHook returns the value of the last plugin in list order
\* whose hook returned a value that is neither null nor undefined, and null
\* when no plugin returned one.
C3_LastWins ==
  (hook.state = "returned" /\ hook.hookName = "transform") =>
    IF Valued = {}
      THEN hook.result = Null
      ELSE hook.result = [v |-> hook.plugins[Max(Valued)].returns,
                          by |-> Max(Valued)]

\* Two plugins returned values and the call returned the second one's.
C3_Witness ==
  /\ hook.state = "returned"
  /\ Cardinality(Valued) >= 2
  /\ hook.result.by = Max(Valued)
  /\ \E i \in Valued : i < Max(Valued) /\ i \in { hook.calls[k] : k \in 1..Len(hook.calls) }

\* C4: when the hook of plugin k throws, the call fails, no hook is invoked
\* after it (of a later plugin or of k again) and nothing is returned.
C4_FailureAborts ==
  \A k \in 1..Len(events) :
    events[k].threw =>
      /\ k = Len(events)
      /\ hook.state = "thrown"
      /\ hook.thrownBy = events[k].plugin
      /\ ~ENABLED NextHook

\* A hook threw while a later plugin that defines the hook was still to come.
C4_Witness ==
  /\ hook.state = "thrown"
  /\ \E j \in (hook.thrownBy + 1)..Len(hook.plugins) :
       hook.hookName \in hook.plugins[j].hooks
  /\ Len(hook.calls) >= 2

\* ------------------------------------------------------------------------
\* The module graph of the project, read off the files
\* ------------------------------------------------------------------------
Range(s) == { s[k] : k \in 1..Len(s) }

\* The module has source text that is not empty.
HasSource(m) == m \in DOMAIN fs /\ fs[m] # <<>>

\* The resolved, non-external edges of a module with source.
EdgesOf(m) ==
  IF ~HasSource(m) THEN {}
  ELSE { d.resolved :
           d \in { dep \in Range(processDependencies(m, fs[m], ctx.config,
                                   ctx.config.plugins, DOMAIN fs)) :
                     dep.resolved # NoPath /\ ~dep.isExternal } }

\* The paths a build of the project can come to process.
AllPaths == DOMAIN fs \cup DirsOf(DOMAIN fs) \cup {IndexTs, ATs, BTs}

\* The graph: the pairs <<importer, imported>> of its edges.
Graph == UNION { { <<m, d>> : d \in EdgesOf(m) } : m \in AllPaths }

\* The modules the modules of S import.
Imported(G, S) == { e[2] : e \in { x \in G : x[1] \in S } }

RECURSIVE ReachableFrom(_, _)
ReachableFrom(G, S) ==
  LET more == S \cup Imported(G, S)
  IN  IF more = S THEN S ELSE ReachableFrom(G, more)

EntryPaths == Range(resolveEntryPoints(ctx.config))

\* The modules reachable from the entry points.
Reachable == ReachableFrom(Graph, EntryPaths)

\* The modules that lie on a cycle of the graph.
OnCycle ==
  LET G == Graph
  IN  { m \in ReachableFrom(G, EntryPaths) : m \in ReachableFrom(G, Imported(G, {m})) }

\* The plugins of the build that define the hook.
Defining(hookName) ==
  { i \in 1..Len(ctx.config.plugins) : hookName \in ctx.config.plugins[i].hooks }

\* How often the hook of plugin i was invoked on module m, and how often the
\* output of m was stored.
Invocations(hookName, i, m) ==
  Cardinality({ k \in 1..Len(events) :
                  /\ events[k].type = "hook"
                  /\ events[k].hook = hookName
                  /\ events[k].plugin = i
                  /\ events[k].filePath = m })

Stores(m) ==
  Cardinality({ k \in 1..Len(events) :
                  events[k].type = "store" /\ events[k].filePath = m })

\* The traversal of every entry point is over and nothing threw in it.
Traversed_All == pc.at \in {"buildEnd", "closeBundle", "done"}

\* The two ends of the stretch in which Traversed_All holds: the traversal
\* has just ended (no buildEnd hook was reached yet), and build() returned.
\* The transforms and stores in the history and the output map do not change
\* in between: only the traversal adds to them.
TraversalOver ==
  \/ pc.at = "buildEnd" /\ hook.state = "running" /\ hook.i = 1
  \/ pc.at = "done"

\* C1: every module reachable from the entry points that has source text is
\* run through the transform step exactly once: at no time was a transform
\* hook invoked twice on a module or a module stored twice, and when the
\* traversal has ended, and again when build() returns, every such module
\* went through every transform hook once and was stored once.
C1_TransformedOnce ==
  /\ \A m \in { events[k].filePath : k \in 1..Len(events) } :
       /\ Stores(m) <= 1
       /\ \A i \in Defining("transform") : Invocations("transform", i, m) <= 1
  /\ TraversalOver =>
       \A m \in Reachable :
         HasSource(m) =>
           /\ Stores(m) = 1
           /\ \A i \in Defining("transform") : Invocations("transform", i, m) = 1

\* A build is over in which a module with two importers is also an entry
\* point that is listed twice.
C1_Witness ==
  /\ pc.at = "done"
  /\ \E m \in Reachable :
       /\ HasSource(m)
       /\ Cardinality({ k \in 1..Len(ctx.entryPoints) : ctx.entryPoints[k] = m }) >= 2
       /\ Cardinality({ i \in DOMAIN ctx.dependencies : m \in ctx.dependencies[i] }) >= 2
       /\ Defining("transform") # {}
       /\ Stores(m) = 1

Terminated == pc.at \in {"done", "failed"}

\* The longest list of dependencies a module of the project can have.
MostDeps == Max({ Len(fs[m]) : m \in DOMAIN fs })

NumPlugins == Len(ctx.config.plugins)

\* The steps a processFile call in progress can still take by itself.
FrameSteps(frame) ==
  CASE frame.at = "transform" -> (NumPlugins - frame.i + 1) + MostDeps + 3
    [] frame.at = "deps"      -> MostDeps + 2
    [] frame.at = "recurse"   -> (Len(frame.dependencies) - frame.d + 1) + 1

RECURSIVE StackSteps(_)
StackSteps(stk) ==
  IF stk = <<>> THEN 0 ELSE FrameSteps(Head(stk)) + StackSteps(Tail(stk))

\* The steps of a pipeline call in progress.
HookSteps ==
  IF hook.state = "running" THEN (NumPlugins - hook.i + 1) + 1 ELSE 0

\* The steps from the start of writeOutputs to the end of build().
ClosingSteps == NumPlugins + 2

\* The steps a file that was not processed yet can add.
FileSteps == NumPlugins + MostDeps + 4

\* A bound on the steps build() can still take: it is a natural number and
\* every step of a build lowers it.
StepsLeft ==
  CASE pc.at \in {"done", "failed", "idle"} -> 0
    [] pc.at = "closeBundle" -> NumPlugins - pc.n + 2
    [] pc.at = "buildEnd" -> HookSteps + 1 + ClosingSteps
    [] pc.at = "entries" ->
         StackSteps(stack)
           + (Len(ctx.entryPoints) - pc.n + 1)
           + FileSteps * Cardinality(AllPaths \ ctx.processed)
           + (NumPlugins + 3) + ClosingSteps
    [] pc.at = "buildStart" ->
         HookSteps + 1
           + Len(ctx.entryPoints)
           + FileSteps * Cardinality(AllPaths)
           + (NumPlugins + 3) + ClosingSteps
    [] pc.at = "create" ->
         (NumPlugins + 3)
           + Len(ctx.config.entry.paths)
           + FileSteps * Cardinality(AllPaths)
           + (NumPlugins + 3) + ClosingSteps

\* C2: the traversal of a graph with a cycle terminates (every step lowers
\* the natural number StepsLeft, and a build that is not over can take a
\* step), and each module of the cycle is a key of the output map, put
\* there exactly once, when the traversal has ended and when build() returns.
C2_CyclesTerminate ==
  /\ [][StepsLeft' < StepsLeft /\ StepsLeft' >= 0]_vars
  /\ [](Terminated \/ CanStep)
  /\ [](\A m \in MapKeys(ctx.outputs) : Stores(m) = 1)
  /\ [](TraversalOver => OnCycle \subseteq MapKeys(ctx.outputs))

\* A build is over whose graph has the cycle a -> b -> a.
C2_Witness ==
  /\ pc.at = "done"
  /\ {ATs, BTs} \subseteq OnCycle
  /\ ATs \in EdgesOf(BTs) /\ BTs \in EdgesOf(ATs)
  /\ {ATs, BTs} \subseteq MapKeys(ctx.outputs)

\* C5: when a transform hook throws during build(), the build fails, nothing
\* is invoked after it (no transform, buildEnd or closeBundle), no step is
\* left to take, and no file was written.
C5_TransformFailureAborts ==
  \A k \in 1..Len(events) :
    (events[k].type = "hook" /\ events[k].hook = "transform" /\ events[k].threw) =>
      /\ k = Len(events)
      /\ pc = Failed
      /\ written = <<>>
      /\ ~CanStep

\* A transform threw after another module was stored, with a file left to
\* process and with plugins that define buildEnd and closeBundle.
C5_Witness ==
  /\ pc = Failed
  /\ events # <<>>
  /\ Last(events).hook = "transform" /\ Last(events).threw
  /\ \E k \in 1..Len(events) : events[k].type = "store"
  /\ \E m \in DOMAIN fs : m \in Reachable /\ m \notin ctx.processed
  /\ Defining("buildEnd") # {} /\ Defining("closeBundle") # {}

\* The phase of build() an entry of the history belongs to.
Phase(e) ==
  CASE e.type = "hook" /\ e.hook = "buildStart"  -> 1
    [] e.type = "hook" /\ e.hook = "transform"   -> 2
    [] e.type \in {"entry", "store"}             -> 2
    [] e.type = "hook" /\ e.hook = "buildEnd"    -> 3
    [] e.type = "write"                          -> 4
    [] e.type = "hook" /\ e.hook = "closeBundle" -> 5

\* The plugins whose hook hookName was invoked, in the order of the calls.
CallsOf(hookName) ==
  LET calls == SelectSeq(events, LAMBDA e : e.type = "hook" /\ e.hook = hookName)
  IN  [k \in 1..Len(calls) |-> calls[k].plugin]

\* Each plugin that defines the hook was called once, in list order.
CalledOnceInOrder(hookName) ==
  LET calls == CallsOf(hookName)
  IN  /\ Range(calls) = Defining(hookName)
      /\ \A k \in 1..(Len(calls) - 1) : calls[k] < calls[k + 1]

\* The modules on which some transform hook was invoked or that were stored.
Transformed ==
  { events[k].filePath : k \in { j \in 1..Len(events) : Phase(events[j]) = 2
                                                        /\ events[j].type # "entry" } }

\* C6: the phases of a build follow each other without overlap: the
\* buildStart hooks, the traversal of the entry points in configured order,
\* the buildEnd hooks (once the output map holds every transformed module),
\* the writing of the outputs, and closeBundle once on each plugin that
\* defines it.
C6_PhaseOrder ==
  /\ \A k \in 1..(Len(events) - 1) : Phase(events[k]) <= Phase(events[k + 1])
  /\ pc.at \in {"entries", "buildEnd", "closeBundle", "done"} =>
       CalledOnceInOrder("buildStart")
  /\ pc.at \in {"buildEnd", "closeBundle", "done"} =>
       /\ [k \in 1..Len(ctx.entryPoints) |-> Entered(ctx.entryPoints[k])]
            = SelectSeq(events, LAMBDA e : e.type = "entry")
       /\ MapKeys(ctx.outputs) = Transformed
  /\ pc.at \in {"closeBundle", "done"} =>
       /\ CalledOnceInOrder("buildEnd")
       /\ \A m \in MapKeys(ctx.outputs) :
            /\ FinalPath(ctx.config, m) \in DOMAIN written
            /\ \E k \in 1..Len(events) : events[k] = Wrote(FinalPath(ctx.config, m))
  /\ pc.at = "done" => CalledOnceInOrder("closeBundle")

\* A build of two entry points with two plugins is over, and every phase
\* left entries in the history.
C6_Witness ==
  /\ pc.at = "done"
  /\ Len(ctx.entryPoints) = 2 /\ ctx.entryPoints[1] # ctx.entryPoints[2]
  /\ Len(ctx.plugins) = 2
  /\ Cardinality(Defining("closeBundle")) = 2
  /\ { Phase(events[k]) : k \in 1..Len(events) } = 1..5

\* The dependency is not external and nothing matches it: no plugin of the
\* build resolves its specifier and none of the candidates exists.
Unmatched(importer, dep) ==
  /\ ~dep.isExternal
  /\ \A i \in Defining("resolveId") : ctx.config.plugins[i].resolveFrom # dep.id
  /\ LET cands == Candidates(dep.id, Dirname(importer), ctx.config)
     IN  \A k \in 1..Len(cands) : ~ExistsSync(DOMAIN fs, cands[k])

\* Why a build of the model may fail: a hook threw, the entry configuration
\* is invalid, or a directory was read as a file.
FailureCause ==
  \/ events # <<>> /\ Last(events).threw
  \/ ~EntryIsValid(ctx.config.entry)
  \/ \E p \in ctx.processed : ReadThrows(fs, p)

\* C10: a dependency that nothing matches is returned unresolved and not
\* external; it is recorded among its importer's edges, it does not fail
\* the build, it is not recursed into, and the importer's other dependencies
\* are still processed.
C10_ResolutionMiss ==
  /\ \A m \in DOMAIN ctx.moduleGraph :
       LET imports == extractImports(fs[m])
           edges == ctx.moduleGraph[m]
       IN  /\ Len(edges) = Len(imports)
           /\ \A k \in 1..Len(edges) :
                /\ edges[k].id = imports[k] \/ imports[k] \in DOMAIN ctx.config.alias
                /\ edges[k].resolved = NoPath \/ ~Unmatched(m, edges[k])
  /\ NoPath \notin ctx.processed
  /\ pc = Failed => FailureCause
  /\ Traversed_All =>
       \A m \in DOMAIN ctx.moduleGraph :
         \A k \in 1..Len(ctx.moduleGraph[m]) :
           LET dep == ctx.moduleGraph[m][k]
           IN  (dep.resolved # NoPath /\ ~dep.isExternal) =>
                 dep.resolved \in ctx.processed

\* A build is over in which a module has an unmatched dependency followed by
\* one that was resolved and processed.
C10_Witness ==
  /\ pc.at = "done"
  /\ \E m \in DOMAIN ctx.moduleGraph :
       \E k, l \in 1..Len(ctx.moduleGraph[m]) :
         /\ k < l
         /\ Unmatched(m, ctx.moduleGraph[m][k])
         /\ ctx.moduleGraph[m][k].resolved = NoPath
         /\ ctx.moduleGraph[m][l].resolved \in MapKeys(ctx.outputs)
         /\ ctx.moduleGraph[m][l].resolved \notin
              { ctx.moduleGraph[m][j].resolved : j \in 1..(k - 1) }

\* ------------------------------------------------------------------------
\* Claims about resolveModuleSpecifier
\* ------------------------------------------------------------------------
Resolved == rs # ResolveIdle /\ rs.out # <<>>

\* The specifier is a URL: it begins with http:, https: or //.
UrlLike(specifier) == specifier[1] \in {"http:", "https:", "//"}

\* The specifier is bare: no leading "." or "/" and no scheme.
BareLike(specifier) ==
  /\ specifier[1] \notin {".", "..", "/", "//"}
  /\ \A k \in 1..Len(specifier) : specifier[k] \notin {"http:", "https:", "node:"}

\* The directory a specifier is resolved against.
Basedir == IF rs.importer # NoPath THEN Dirname(rs.importer) ELSE Cwd

\* C7: a URL specifier, and a bare specifier with no entry of its own in the
\* alias table, is external and unresolved, and neither a resolveId hook nor
\* the filesystem was consulted for it.
C7_ExternalSpecifiers ==
  Resolved =>
    ((\/ UrlLike(rs.specifier)
      \/ BareLike(rs.specifier) /\ rs.specifier \notin DOMAIN rs.config.alias) =>
       /\ rs.out[1].isExternal
       /\ rs.out[1].resolved = NoPath
       /\ rs.out[1].calls = <<>>
       /\ rs.out[1].probes = <<>>)

\* C8: a bare specifier with an alias is not external, and the plugins and
\* the filesystem probing are given the alias target, not the specifier.
C8_AliasRewrites ==
  (Resolved /\ BareLike(rs.specifier) /\ rs.specifier \in DOMAIN rs.config.alias) =>
    LET target == rs.config.alias[rs.specifier]
    IN  /\ ~rs.out[1].isExternal
        /\ \A k \in 1..Len(rs.out[1].calls) : rs.out[1].calls[k].source = target
        /\ rs.out[1].probes # <<>> => rs.out[1].probes[1] = Join(Basedir, target)

\* No plugin of the call resolves the specifier.
NoPluginResolves ==
  \A i \in 1..Len(rs.plugins) :
    "resolveId" \in rs.plugins[i].hooks => rs.plugins[i].resolveFrom # rs.specifier

\* The order the claim gives: the literal path, the path with each
\* extension, the path as a directory with index and each extension.
ClaimedOrder ==
  LET literal == Join(Basedir, rs.specifier)
      extensions == IF rs.config.extensions = <<>>
                      THEN <<".ts", ".tsx", ".js", ".jsx", ".json">>
                      ELSE rs.config.extensions
  IN  <<literal>>
        \o [i \in 1..Len(extensions) |-> WithExt(literal, extensions[i])]
        \o [i \in 1..Len(extensions) |-> literal \o <<"index" \o extensions[i]>>]

Min(S) == CHOOSE m \in S : \A n \in S : m <= n

\* C9: when no plugin resolves a relative specifier, the candidates are
\* probed in the claimed order and the first that exists is returned; "./util"
\* from /proj/src/index.ts with only util.ts beside it gives util.ts.
C9_ProbeOrder ==
  (Resolved /\ rs.specifier[1] \in {".", ".."} /\ NoPluginResolves) =>
    LET order == ClaimedOrder
        hits == { k \in 1..Len(order) : ExistsSync(rs.files, order[k]) }
    IN  /\ ~rs.out[1].isExternal
        /\ hits = {} => rs.out[1].resolved = NoPath /\ rs.out[1].probes = order
        /\ hits # {} =>
             /\ rs.out[1].resolved = order[Min(hits)]
             /\ rs.out[1].probes = SubSeq(order, 1, Min(hits))
        /\ (/\ rs.specifier = RelUtil
            /\ rs.importer = IndexTs
            /\ rs.files = {IndexTs, SrcDir \o <<"util.ts">>}) =>
             rs.out[1].resolved = SrcDir \o <<"util.ts">>

\* "./util" was resolved to util.js, the first configured extension, with
\* util.ts present as well and no file or directory named util.
C9_Witness ==
  /\ Resolved
  /\ rs.specifier = RelUtil
  /\ rs.importer = IndexTs
  /\ NoPluginResolves
  /\ rs.config.extensions = <<".js", ".ts">>
  /\ {SrcDir \o <<"util.ts">>, SrcDir \o <<"util.js">>} \subseteq rs.files
  /\ rs.out[1].resolved = SrcDir \o <<"util.js">>
  /\ Len(rs.out[1].probes) = 2

\* ------------------------------------------------------------------------
\* Specification of a session of resolveModuleSpecifier calls on one
\* filesystem, one configuration and one plugin list
\* ------------------------------------------------------------------------
MaxCalls == 3

SessionSpecifiers ==
  { RelUtil, <<"..", "/", "src", "/", "util">>, AliasedUtil, <<"lodash">> }

SessionFilesystems ==
  { {IndexTs},
    {IndexTs, SrcDir \o <<"util.ts">>},
    {IndexTs, SrcDir \o <<"util", "index.ts">>} }

SessionPlugins ==
  { Plugin("never", {"resolveId"}, "null", NoPath, NoPath),
    Plugin("virtual", {"resolveId"}, "null", RelUtil, VirtualUtil) }

SessionConfigs ==
  { [alias |-> NoAlias, extensions |-> <<>>],
    [alias |-> [t \in {AliasedUtil} |-> RelUtil], extensions |-> <<".ts", ".js">>] }

AnswerStaleImporter(session, specifier, importer) ==
  LET before == IF session.out = <<>> THEN importer
                ELSE session.out[Len(session.out)].importer
  IN  [specifier |-> specifier, importer |-> importer,
       info |-> DepInfo(resolveModuleSpecifier(specifier, before, session.config,
                                               session.plugins, session.files))]

\* One call of the session and the DependencyInfo it returns: the function
\* reads its arguments and the filesystem, and keeps nothing of the calls
\* made before (no cache, no module-level variable that it writes).
Answer(session, specifier, importer) ==
  [specifier |-> specifier, importer |-> importer,
   info |-> DepInfo(resolveModuleSpecifier(specifier, importer, session.config,
                                           session.plugins, session.files))]

InitSession ==
  /\ \E config \in SessionConfigs, files \in SessionFilesystems,
        plugins \in SeqsUpTo(SessionPlugins, MaxPlugins) :
       rs = [specifier |-> <<>>, importer |-> NoPath, config |-> config,
             plugins |-> plugins, files |-> files, out |-> <<>>]
  /\ hook = HookIdle
  /\ BuildIdle
  /\ srv = ServerIdle
  /\ page = PageIdle

\* await resolveModuleSpecifier(specifier, importer, config, plugins), again
ResolveAgain ==
  /\ Len(rs.out) < MaxCalls
  /\ \E specifier \in SessionSpecifiers, importer \in {IndexTs, NoPath} :
       rs' = [rs EXCEPT !.out = Append(@, Answer(rs, specifier, importer))]
  /\ UNCHANGED <<srv, page, hook, buildVars>>

NextSession == ResolveAgain

SpecSession == InitSession /\ [][NextSession]_vars

AJs == SrcDir \o <<"a.js">>

ATsx == SrcDir \o <<"a.tsx">>

RelATs == <<".", "/", "a.ts">>

RelAJs == <<".", "/", "a.js">>

RelATsx == <<".", "/", "a.tsx">>

RelBTs == <<".", "/", "b.ts">>

\* index.ts imports two modules by their full names; each module has a text
\* of its own.
SiblingProjects ==
  { (IndexTs :> <<RelATs, RelAJs>>) @@ (ATs :> <<NoImport>>)
      @@ (AJs :> <<NoImport, NoImport>>),
    (IndexTs :> <<RelATs, RelATsx>>) @@ (ATs :> <<NoImport>>)
      @@ (ATsx :> <<NoImport, NoImport>>),
    (IndexTs :> <<RelATs, RelBTs>>) @@ (ATs :> <<NoImport>>)
      @@ (BTs :> <<NoImport, NoImport>>),
    (IndexTs :> <<RelATs, <<"lodash">>>>) @@ (ATs :> <<NoImport>>) }

InitSiblings ==
  /\ fs \in SiblingProjects
  /\ \E config \in BuildConfigs : ctx = NoContext(config)
  /\ stack = <<>>
  /\ pc = [at |-> "create", n |-> 0]
  /\ events = <<>>
  /\ written = <<>>
  /\ hook = HookIdle
  /\ rs = ResolveIdle
  /\ srv = ServerIdle
  /\ page = PageIdle

SpecSiblings == InitSiblings /\ [][Next]_vars

\* The files of code on disk (the .map files aside).
CodeFiles == { p \in DOMAIN written : written[p].kind = "code" }

\* The text a module's output file holds, without the source-map comment.
TextOnDisk(p) ==
  SelectSeq(written[p].code.text, LAMBDA st : st # SourceMapComment)

\* C12: once the outputs are written there is one file of code per module of
\* the output map, distinct modules were written to distinct paths, and each
\* module's file holds that module's code.
C12_OneFilePerModule ==
  pc.at \in {"closeBundle", "done"} =>
    /\ \A m, n \in MapKeys(ctx.outputs) :
         m # n => FinalPath(ctx.config, m) # FinalPath(ctx.config, n)
    /\ Cardinality(CodeFiles) = Cardinality(MapKeys(ctx.outputs))
    /\ \A m \in MapKeys(ctx.outputs) :
         /\ FinalPath(ctx.config, m) \in CodeFiles
         /\ TextOnDisk(FinalPath(ctx.config, m)) = MapGet(ctx.outputs, m).code.text

\* ------------------------------------------------------------------------
\* The development server (src/src/server.ts)
\* ------------------------------------------------------------------------
\* A file name of the served directory is the sequence of its tokens:
\* "app.ts" is <<"app", ".", "ts">>, "notes.ts.bak" is
\* <<"notes", ".", "ts", ".", "bak">>.
MaxServerPlugins == 1
MaxChanges == 1
MaxClock == 2

AppTs == <<"app", ".", "ts">>

LibJs == <<"lib", ".", "js">>

ModMjs == <<"mod", ".", "mjs">>

ViewJsx == <<"view", ".", "jsx">>

PageTsx == <<"page", ".", "tsx">>

MainUpperTs == <<"main", ".", "TS">>

StyleCss == <<"style", ".", "css">>

IndexHtml == <<"index", ".", "html">>

\* The paths the watcher reports changes of.
WatchedPaths ==
  {AppTs, LibJs, ModMjs, ViewJsx, PageTsx, MainUpperTs, StyleCss}

\* createHMRPlugin(): the plugin the constructor puts first; it defines
\* transform alone.
HmrPlugin == Plugin("aether:hmr", {"transform"}, "hmr", NoPath, NoPath)

\* The plugins of options.plugins.
ServerPlugins ==
  { Plugin("ts", {"transform", "watchChange"}, "object", NoPath, NoPath),
    Plugin("hot", {"handleHotUpdate", "configureDevServer"}, "null", NoPath, NoPath) }

hasAcceptedUpdateAnyCase(path) ==
  /\ Len(path) >= 2
  /\ path[Len(path) - 1] = "."
  /\ path[Len(path)] \in {"js", "mjs", "ts", "jsx", "tsx", "JS", "TS"}

\* hasAcceptedUpdate(path): /\.(js|mjs|ts|jsx|tsx)$/.test(path)
hasAcceptedUpdate(path) ==
  /\ Len(path) >= 2
  /\ path[Len(path) - 1] = "."
  /\ path[Len(path)] \in {"js", "mjs", "ts", "jsx", "tsx"}

\* getAffectedModules(path)
getAffectedModules(path) == <<>>

\* new DevServer({config, plugins}): nothing listens, nothing is watched, no
\* client is connected. dev is config.server being defined, watch is
\* config.server.watch being set.
NewDevServer(plugins, dev, watch) ==
  [plugins |-> <<HmrPlugin>> \o plugins,
   dev |-> dev,
   watch |-> watch,
   started |-> "no",        \* start(): "no", "yes", or "failed" (it rejected)
   listening |-> FALSE,     \* the HTTP listener accepts connections
   watcher |-> "none",      \* this.watcher: "none" (null), "watching", "closed"
   wss |-> "open",          \* the WebSocketServer: "open" or "closed"
   clients |-> {},          \* this.clients
   readyState |-> <<>>,     \* socket -> "open" | "closing", of the live sockets
   now |-> 1,               \* Date.now()
   changes |-> <<>>,        \* the change handlers, in order of arrival
   sent |-> <<>>,           \* the messages notifyClients sent, in order
   requests |-> <<>>,       \* the handleRequest calls, in order of arrival
   closes |-> <<>>]         \* the close() calls, in order

ServerVars == <<hook, rs, fs, ctx, stack, pc, events, written, page>>

\* await server.start(): the configureDevServer hooks, listen, startWatcher.
\* A configureDevServer hook that throws makes start() reject before listen.
Start ==
  /\ srv.started = "no"
  /\ srv.closes = <<>>
  /\ \E throws \in BOOLEAN :
       /\ throws =>
            \E i \in 1..Len(srv.plugins) : "configureDevServer" \in srv.plugins[i].hooks
       /\ srv' = IF throws
                   THEN [srv EXCEPT !.started = "failed"]
                   ELSE [srv EXCEPT !.started = "yes", !.listening = TRUE,
                                    !.watcher = IF srv.watch THEN "watching" ELSE @]
  /\ UNCHANGED ServerVars

\* The browser tabs that may connect.
Sockets == {"tab1"}

\* A browser opens /__aether_hmr: the upgrade is handled and the connection
\* handler adds the socket to this.clients.
Connect(c) ==
  /\ srv.listening /\ srv.wss = "open"
  /\ c \notin DOMAIN srv.readyState
  /\ srv' = [srv EXCEPT !.clients = @ \cup {c},
                        !.readyState = (c :> "open") @@ @]
  /\ UNCHANGED ServerVars

\* The closing handshake of a socket begins: its readyState is CLOSING.
SocketClosing(c) ==
  /\ c \in DOMAIN srv.readyState /\ srv.readyState[c] = "open"
  /\ srv' = [srv EXCEPT !.readyState[c] = "closing"]
  /\ UNCHANGED ServerVars

\* socket.on('close'): the socket is gone and is deleted from this.clients.
SocketClosed(c) ==
  /\ c \in DOMAIN srv.readyState /\ srv.readyState[c] = "closing"
  /\ srv' = [srv EXCEPT !.clients = @ \ {c},
                        !.readyState = [s \in DOMAIN @ \ {c} |-> @[s]]]
  /\ UNCHANGED ServerVars

\* Time passes while a change handler runs: Date.now() returns a later
\* value. (Only the change handlers read the clock.)
Tick ==
  /\ srv.now < MaxClock
  /\ \E k \in 1..Len(srv.changes) : srv.changes[k].state = "running"
  /\ srv' = [srv EXCEPT !.now = @ + 1]
  /\ UNCHANGED ServerVars

EveryClient(s) == s.clients

\* The sockets notifyClients sends to: client.readyState === WebSocket.OPEN.
OpenClients(s) == { c \in s.clients : s.readyState[c] = "open" }

\* The hooks the change handler calls on each plugin, in this order.
ChangeHooks == <<"watchChange", "handleHotUpdate">>

\* The position of the loop after the hook at (i, h).
ChangeAdvance(e) ==
  IF e.h < Len(ChangeHooks) THEN [e EXCEPT !.h = @ + 1]
  ELSE [e EXCEPT !.i = @ + 1, !.h = 1]

\* The payload the handler of the change e broadcasts.
ChangePayload(e) ==
  IF hasAcceptedUpdate(e.path)
    THEN [type |-> "update", path |-> e.path,
          modules |-> <<e.path>> \o getAffectedModules(e.path),
          timestamp |-> e.timestamp]
    ELSE [type |-> "reload"]

\* notifyClients(data): one send per client whose socket is open.
notifyClients(s, k, data) ==
  [s EXCEPT !.sent = Append(@, [change |-> k, data |-> data, to |-> OpenClients(s)])]

\* The change handler k from its position up to its next await: hooks
\* that are not defined are passed over (if (plugin.watchChange), if
\* (plugin.handleHotUpdate)); after the last plugin, hasAcceptedUpdate and
\* notifyClients.
RECURSIVE ChangeProceed(_, _)
ChangeProceed(s, k) ==
  LET e == s.changes[k]
  IN  IF e.i > Len(s.plugins)
        THEN [notifyClients(s, k, ChangePayload(e)) EXCEPT !.changes[k].state = "done"]
      ELSE IF ChangeHooks[e.h] \in s.plugins[e.i].hooks
        THEN s
      ELSE ChangeProceed([s EXCEPT !.changes[k] = ChangeAdvance(e)], k)

\* The handler of a change of path, at its first line: the timestamp is
\* taken.
ChangeEvent(path) ==
  [path |-> path, arrived |-> srv.now, timestamp |-> srv.now,
   i |-> 1, h |-> 1, state |-> "running", calls |-> <<>>]

\* watcher.on('change', path)
ChangeBegin(path) ==
  /\ srv.watcher = "watching"
  /\ Len(srv.changes) < MaxChanges
  /\ srv' = ChangeProceed([srv EXCEPT !.changes = Append(@, ChangeEvent(path))],
                          Len(srv.changes) + 1)
  /\ UNCHANGED ServerVars

\* The change handler k awaits a hook.
ChangeRunning(k) ==
  /\ k \in 1..Len(srv.changes)
  /\ srv.changes[k].state = "running"

\* await plugin.watchChange(...) / await plugin.handleHotUpdate(...) returns.
ChangeCall(k) ==
  /\ ChangeRunning(k)
  /\ LET e == srv.changes[k]
         called == ChangeAdvance([e EXCEPT !.calls = Append(@, <<e.i, e.h>>)])
     IN  srv' = ChangeProceed([srv EXCEPT !.changes[k] = called], k)
  /\ UNCHANGED ServerVars

\* The awaited hook throws: the handler's promise rejects, nothing is sent.
ChangeThrow(k) ==
  /\ ChangeRunning(k)
  /\ srv' = [srv EXCEPT !.changes[k].state = "threw"]
  /\ UNCHANGED ServerVars

\* ------------------------------------------------------------------------
\* Specification of a started server that watches: change events
\* ------------------------------------------------------------------------
InitWatch ==
  /\ \E plugins \in SeqsUpTo(ServerPlugins, MaxServerPlugins) :
       srv = NewDevServer(plugins, TRUE, TRUE)
  /\ page = PageIdle
  /\ hook = HookIdle
  /\ rs = ResolveIdle
  /\ BuildIdle

NextWatch ==
  \/ Start
  \/ Tick
  \/ \E c \in Sockets : Connect(c)
  \/ \E c \in Sockets : SocketClosing(c)
  \/ \E c \in Sockets : SocketClosed(c)
  \/ \E path \in WatchedPaths : ChangeBegin(path)
  \/ \E k \in 1..MaxChanges : ChangeCall(k)
  \/ \E k \in 1..MaxChanges : ChangeThrow(k)

SpecWatch == InitWatch /\ [][NextWatch]_vars

\* C13: the message broadcast for a change event is decided by the extension
\* of the changed path alone. For a path ending in .js, .mjs, .ts, .jsx or
\* .tsx it is an update naming the path, listing it among the modules and
\* carrying the time the event arrived; for any other path it is exactly
\* {type: "reload"}. A handler that ran to its end broadcast once, any other
\* handler not at all.
C13_MessageByExtension ==
  /\ \A j \in 1..Len(srv.sent) :
       LET e == srv.changes[srv.sent[j].change]
           data == srv.sent[j].data
       IN  IF /\ Len(e.path) >= 2
              /\ e.path[Len(e.path) - 1] = "."
              /\ Last(e.path) \in {"js", "mjs", "ts", "jsx", "tsx"}
             THEN /\ DOMAIN data = {"type", "path", "modules", "timestamp"}
                  /\ data.type = "update"
                  /\ data.path = e.path
                  /\ e.path \in Range(data.modules)
                  /\ data.timestamp = e.arrived
             ELSE data = [type |-> "reload"]
  /\ \A k \in 1..Len(srv.changes) :
       Cardinality({ j \in 1..Len(srv.sent) : srv.sent[j].change = k })
         = IF srv.changes[k].state = "done" THEN 1 ELSE 0

\* An update was broadcast to a client after time had passed since its event
\* arrived.
C13_Witness ==
  \E j \in 1..Len(srv.sent) :
    /\ srv.sent[j].data.type = "update"
    /\ srv.sent[j].data.timestamp < srv.now
    /\ srv.sent[j].to # {}

\* ------------------------------------------------------------------------
\* The HMR client (src/src/hmr/client.ts and its dist build)
\* ------------------------------------------------------------------------
MaxMessages == 1
MaxHotCalls == 3

\* The module identities of the page, as they appear in the browser.
ModA == <<"/", "a", ".", "ts">>

ModB == <<"/", "b", ".", "ts">>

Modules == {ModA, ModB}

\* The payloads a socket message may carry. A payload without a timestamp
\* has timestamp 0 (undefined is falsy as 0 is).
UpdateMessage(modules, timestamp) ==
  [type |-> "update", path |-> NoPath, modules |-> modules, timestamp |-> timestamp]

OtherMessage(type, path) ==
  [type |-> type, path |-> path, modules |-> <<>>, timestamp |-> 0]

Messages ==
  { UpdateMessage(<<ModA>>, 1),
    UpdateMessage(<<ModA, ModB>>, 2),
    UpdateMessage(<<ModB, ModA>>, 0),
    UpdateMessage(<<>>, 1),
    OtherMessage("reload", NoPath),
    OtherMessage("prune", ModA),
    OtherMessage("error", NoPath) }

\* Date.now() in the page.
PageNow == 3

\* The page after the client script ran (initialize): empty registries.
\* dist tells which build of the client the page runs.
NewPage(dist) ==
  [dist |-> dist,
   hotModulesMap |-> <<>>,  \* module -> the number of its HMRModule object
   hotModules |-> <<>>,     \* the HMRModule objects made: {id, callbacks}
   pruneMap |-> <<>>,       \* module -> dispose function
   contexts |-> <<>>,       \* the hot contexts handed out: owner; its data bag is its number
   bags |-> <<>>,           \* dispose function -> the data bag of the context it was given to
   declined |-> {},         \* the modules that called decline()
   calls |-> 0,             \* the hot-context calls the modules made so far
   fns |-> 0,               \* the functions the modules passed so far
   loads |-> 0,             \* the dynamic imports that resolved so far
   handlers |-> <<>>]       \* the handleMessage calls, in order of arrival

PageVars == <<hook, rs, fs, ctx, stack, pc, events, written, srv>>

\* An entry of the trace of a handleMessage call, at the module number idx
\* of its payload:
\*   skip:    updateModules passed over the module; fn is the number of
\*            callbacks the module had then (-1: it had no entry)
\*   import:  await import(url) settled; val is the loaded module (or the
\*            url, when it failed), fn the dispose function the module had
\*            registered then (0: none)
\*   call:    the callback fn was invoked with val
\*   updated: the loop over the callbacks ended; fn is the number of
\*            callbacks the module had then
\*   disposed: the dispose function fn was invoked with the data bag val
\*   reload:  location.reload()
Logged(ev, h, idx, path, fn, val, ok) ==
  [ev |-> ev, idx |-> idx, path |-> path, fn |-> fn, val |-> val, ok |-> ok]

\* The trace of handler h, with one more entry.
Trace(p, h, entry) == [p EXCEPT !.handlers[h].trace = Append(@, entry)]

HotCalls(p) == p.calls

\* Map.delete(key)
Deleted(m, key) == [k \in DOMAIN m \ {key} |-> m[k]]

\* Map.set(key, value)
WithKey(m, key, value) == (key :> value) @@ Deleted(m, key)

\* createHotContext(ownerPath): the module's entry is made if it has none.
createHotContext(p, ownerPath) ==
  LET fresh == ownerPath \notin DOMAIN p.hotModulesMap
      made == IF fresh
                THEN [p EXCEPT !.hotModules =
                                 Append(@, [id |-> ownerPath, callbacks |-> <<>>]),
                               !.hotModulesMap =
                                 WithKey(@, ownerPath, Len(p.hotModules) + 1)]
                ELSE p
  IN  [made EXCEPT !.contexts = Append(@, ownerPath), !.calls = @ + 1]

\* A module is evaluated: import.meta.hot = __AETHER_CREATE_HOT__(path).
CreateHotContext(ownerPath) ==
  /\ HotCalls(page) < MaxHotCalls
  /\ page' = createHotContext(page, ownerPath)
  /\ UNCHANGED PageVars

\* hot.accept(callback) and hot.acceptDeps(deps, callback) of context x:
\* hotModulesMap.get(ownerPath)!.callbacks.push(callback). Without an entry
\* for the owner the call throws a TypeError and changes nothing.
Accept(x) ==
  /\ HotCalls(page) < MaxHotCalls
  /\ x \in 1..Len(page.contexts)
  /\ page.contexts[x] \in DOMAIN page.hotModulesMap
  /\ LET ownerPath == page.contexts[x]
         a == page.hotModulesMap[ownerPath]
         fn == page.fns + 1
     IN  page' = [page EXCEPT
                    !.fns = fn,
                    !.calls = @ + 1,
                    !.hotModules[a].callbacks = Append(@, fn)]
  /\ UNCHANGED PageVars

\* hot.decline() of context x: hotModulesMap.delete(ownerPath)
Decline(x) ==
  /\ HotCalls(page) < MaxHotCalls
  /\ x \in 1..Len(page.contexts)
  /\ LET ownerPath == page.contexts[x]
     IN  page' = [page EXCEPT
                    !.hotModulesMap = Deleted(@, ownerPath),
                    !.declined = @ \cup {ownerPath},
                    !.calls = @ + 1]
  /\ UNCHANGED PageVars

\* hot.dispose(callback) of context x, and hot.prune(callback) where the
\* build has it: pruneMap.set(ownerPath, callback)
Dispose(x) ==
  /\ HotCalls(page) < MaxHotCalls
  /\ x \in 1..Len(page.contexts)
  /\ LET ownerPath == page.contexts[x]
         fn == page.fns + 1
     IN  page' = [page EXCEPT
                    !.fns = fn,
                    !.calls = @ + 1,
                    !.bags = (fn :> x) @@ @,
                    !.pruneMap = WithKey(@, ownerPath, fn)]
  /\ UNCHANGED PageVars

BustUrlPlain(path, timestamp) == [path |-> path, t |-> 0]

\* `${path}?t=${timestamp}`
BustUrl(path, timestamp) == [path |-> path, t |-> timestamp]

\* payload.timestamp || Date.now()
StampOf(payload) == IF payload.timestamp # 0 THEN payload.timestamp ELSE PageNow

\* const callbacks = hotModule.callbacks, of the handler h's current module.
CallbacksOf(p, h) == p.hotModules[p.handlers[h].hotModule].callbacks

\* updateModules from the module number idx up to its next await: modules
\* without an entry or without callbacks are passed over; at the first
\* module with callbacks the import begins.
RECURSIVE Proceed(_, _, _)
Proceed(p, h, idx) ==
  LET modules == p.handlers[h].payload.modules
  IN  IF idx > Len(modules)
        THEN [p EXCEPT !.handlers[h].at = "done", !.handlers[h].idx = idx]
      ELSE IF \/ modules[idx] \notin DOMAIN p.hotModulesMap
              \/ p.hotModules[p.hotModulesMap[modules[idx]]].callbacks = <<>>
        THEN Proceed(Trace(p, h, Logged("skip", h, idx, modules[idx],
                                        IF modules[idx] \in DOMAIN p.hotModulesMap
                                          THEN 0 ELSE -1,
                                        0, TRUE)),
                     h, idx + 1)
      ELSE [p EXCEPT !.handlers[h].at = "import",
                     !.handlers[h].idx = idx,
                     !.handlers[h].hotModule = p.hotModulesMap[modules[idx]],
                     !.handlers[h].c = 1]

\* location.reload(), called by the handler h at its module idx.
Reload(p, h, idx) ==
  Trace(p, h, Logged("reload", h, idx, NoPath, 0, 0, TRUE))

\* pruneModule(path): the dispose function is given a new object (the data
\* bag 0, no context's), and stays registered when it throws.
pruneModule(p, h, path, throws) ==
  LET disposed ==
        IF path \in DOMAIN p.pruneMap
          THEN [Trace(p, h, Logged("disposed", h, 0, path, p.pruneMap[path],
                                   0, ~throws))
                  EXCEPT !.pruneMap = IF throws THEN @ ELSE Deleted(@, path)]
          ELSE p
  IN  [disposed EXCEPT !.hotModulesMap = Deleted(@, path)]

\* handleMessage(payload), up to its first await.
handleMessage(p, h, payload, throws) ==
  CASE payload.type = "update" /\ payload.modules # <<>> -> Proceed(p, h, 1)
    [] payload.type = "reload" -> Reload(p, h, 0)
    [] payload.type = "prune" /\ payload.path # NoPath /\ ~p.dist ->
         pruneModule(p, h, payload.path, throws)
    [] OTHER -> p

\* socket 'message': JSON.parse, then handleMessage(payload), not awaited.
Receive(payload) ==
  /\ Len(page.handlers) < MaxMessages
  /\ \E throws \in BOOLEAN :
       LET h == Len(page.handlers) + 1
           begun == [page EXCEPT !.handlers =
                       Append(@, [payload |-> payload, at |-> "done", idx |-> 0,
                                  hotModule |-> 0, c |-> 0, val |-> 0,
                                  declined |-> page.declined,
                                  pruneMap |-> page.pruneMap,
                                  trace |-> <<>>])]
       IN  /\ throws =>
                /\ payload.type = "prune" /\ ~page.dist
                /\ payload.path \in DOMAIN page.pruneMap
           /\ page' = handleMessage(begun, h, payload, throws)
  /\ UNCHANGED PageVars

\* pruneMap.get(path), 0 when there is none.
RegisteredDispose(p, path) ==
  IF path \in DOMAIN p.pruneMap THEN p.pruneMap[path] ELSE 0

\* The handler h waits for its import.
Importing(h) == h \in 1..Len(page.handlers) /\ page.handlers[h].at = "import"

\* The handler h is in its loop over the callbacks.
Calling(h) == h \in 1..Len(page.handlers) /\ page.handlers[h].at = "callbacks"

\* await import(url) resolves with the freshly evaluated module.
ImportOk(h) ==
  /\ Importing(h)
  /\ LET e == page.handlers[h]
         path == e.payload.modules[e.idx]
         val == [url |-> BustUrl(path, StampOf(e.payload)), load |-> page.loads + 1]
     IN  page' = [Trace(page, h, Logged("import", h, e.idx, path,
                                        RegisteredDispose(page, path), val, TRUE))
                    EXCEPT !.loads = @ + 1,
                           !.handlers[h].at = "callbacks",
                           !.handlers[h].val = val]
  /\ UNCHANGED PageVars

\* await import(url) rejects: the catch block reloads, the loop goes on.
ImportFail(h) ==
  /\ Importing(h)
  /\ LET e == page.handlers[h]
         path == e.payload.modules[e.idx]
         url == BustUrl(path, StampOf(e.payload))
         failed == Trace(page, h, Logged("import", h, e.idx, path,
                                         RegisteredDispose(page, path), url, FALSE))
     IN  page' = Proceed(Reload(failed, h, e.idx), h, e.idx + 1)
  /\ UNCHANGED PageVars

CurrentCallbackReversed(p, h) ==
  CallbacksOf(p, h)[Len(CallbacksOf(p, h)) + 1 - p.handlers[h].c]

\* The callback the loop of handler h is at.
CurrentCallback(p, h) == CallbacksOf(p, h)[p.handlers[h].c]

\* await Promise.resolve(callback(newModule)) returns.
CallbackOk(h) ==
  /\ Calling(h)
  /\ page.handlers[h].c <= Len(CallbacksOf(page, h))
  /\ LET e == page.handlers[h]
     IN  page' = [Trace(page, h, Logged("call", h, e.idx, e.payload.modules[e.idx],
                                        CurrentCallback(page, h), e.val, TRUE))
                    EXCEPT !.handlers[h].c = @ + 1]
  /\ UNCHANGED PageVars

\* The callback throws or its promise rejects: the catch block reloads, the
\* loop over the modules goes on.
CallbackFail(h) ==
  /\ Calling(h)
  /\ page.handlers[h].c <= Len(CallbacksOf(page, h))
  /\ LET e == page.handlers[h]
         failed == Trace(page, h, Logged("call", h, e.idx, e.payload.modules[e.idx],
                                         CurrentCallback(page, h), e.val, FALSE))
     IN  page' = Proceed(Reload(failed, h, e.idx), h, e.idx + 1)
  /\ UNCHANGED PageVars

\* The loop over the callbacks is over: "Hot updated", then the next module.
ModuleUpdated(h) ==
  /\ Calling(h)
  /\ page.handlers[h].c > Len(CallbacksOf(page, h))
  /\ LET e == page.handlers[h]
         updated == Trace(page, h, Logged("updated", h, e.idx, e.payload.modules[e.idx],
                                          Len(CallbacksOf(page, h)), 0, TRUE))
     IN  page' = Proceed(updated, h, e.idx + 1)
  /\ UNCHANGED PageVars

\* ------------------------------------------------------------------------
\* Specification of a page that runs the client
\* ------------------------------------------------------------------------
InitPage ==
  /\ \E dist \in BOOLEAN : page = NewPage(dist)
  /\ srv = ServerIdle
  /\ hook = HookIdle
  /\ rs = ResolveIdle
  /\ BuildIdle

Contexts == 1..MaxHotCalls

Handlers == 1..MaxMessages

NextPage ==
  \/ \E ownerPath \in Modules : CreateHotContext(ownerPath)
  \/ \E x \in Contexts : Accept(x)
  \/ \E x \in Contexts : Decline(x)
  \/ \E x \in Contexts : Dispose(x)
  \/ \E payload \in Messages : Receive(payload)
  \/ \E h \in Handlers : ImportOk(h)
  \/ \E h \in Handlers : ImportFail(h)
  \/ \E h \in Handlers : CallbackOk(h)
  \/ \E h \in Handlers : CallbackFail(h)
  \/ \E h \in Handlers : ModuleUpdated(h)

SpecPage == InitPage /\ [][NextPage]_vars

\* The entries of a trace that belong to the module number idx.
Segment(trace, idx) == SelectSeq(trace, LAMBDA entry : entry.idx = idx)

\* C14: for every module an update message lists, once the handler is past
\* it: either the module had no accept callback when it was reached and
\* nothing was done, or it was imported with t=<timestamp of the message>
\* and then (a) every callback it had registered was invoked once, in
\* registration order, with the module value that import loaded, or (b) the
\* import or a callback failed and the page was reloaded at once. A reload
\* message reloads the page.
C14_UpdateContract ==
  \A h \in 1..Len(page.handlers) :
    LET e == page.handlers[h]
        modules == e.payload.modules
    IN  /\ e.payload.type = "reload" =>
             Len(e.trace) = 1 /\ e.trace[1].ev = "reload"
        /\ e.payload.type = "update" =>
             \A idx \in 1..Len(modules) :
               (idx < e.idx \/ e.at = "done") =>
                 LET seg == Segment(e.trace, idx)
                     n == Len(seg)
                 IN  /\ n >= 1
                     /\ \A j \in 1..n : seg[j].ev \in {"reload"} \/ seg[j].path = modules[idx]
                     /\ \/ n = 1 /\ seg[1].ev = "skip" /\ seg[1].fn <= 0
                        \/ /\ seg[1].ev = "import" /\ ~seg[1].ok
                           /\ e.payload.timestamp # 0 =>
                                seg[1].val = [path |-> modules[idx],
                                              t |-> e.payload.timestamp]
                           /\ n = 2 /\ seg[2].ev = "reload"
                        \/ /\ seg[1].ev = "import" /\ seg[1].ok
                           /\ e.payload.timestamp # 0 =>
                                seg[1].val.url = [path |-> modules[idx],
                                                  t |-> e.payload.timestamp]
                           /\ \E a \in 1..Len(page.hotModules) :
                                /\ page.hotModules[a].id = modules[idx]
                                /\ page.hotModules[a].callbacks # <<>>
                                /\ \/ /\ seg[n].ev = "updated"
                                      /\ seg[n].fn = n - 2
                                      /\ \A j \in 2..(n - 1) :
                                           /\ seg[j].ev = "call" /\ seg[j].ok
                                           /\ seg[j].val = seg[1].val
                                           /\ j - 1 <= Len(page.hotModules[a].callbacks)
                                           /\ seg[j].fn = page.hotModules[a].callbacks[j - 1]
                                   \/ /\ n >= 3
                                      /\ seg[n].ev = "reload"
                                      /\ seg[n - 1].ev = "call" /\ ~seg[n - 1].ok
                                      /\ \A j \in 2..(n - 1) :
                                           /\ seg[j].ev = "call"
                                           /\ j < n - 1 => seg[j].ok
                                           /\ seg[j].val = seg[1].val
                                           /\ j - 1 <= Len(page.hotModules[a].callbacks)
                                           /\ seg[j].fn = page.hotModules[a].callbacks[j - 1]

\* An update naming two modules was handled to its end: the first was
\* imported and its two callbacks were invoked, the second had none.
C14_Witness ==
  \E h \in 1..Len(page.handlers) :
    LET e == page.handlers[h]
    IN  /\ e.at = "done"
        /\ e.payload.type = "update" /\ Len(e.payload.modules) = 2
        /\ \E j \in 1..Len(e.trace) : e.trace[j].ev = "updated" /\ e.trace[j].fn = 2
        /\ \E j \in 1..Len(e.trace) : e.trace[j].ev = "skip"

\* C15: a handler of an update message that names a module which had
\* called decline() before the message arrived reloads the page before it
\* is done.
C15_DeclinedReloads ==
  \A h \in 1..Len(page.handlers) :
    LET e == page.handlers[h]
    IN  ( /\ e.at = "done"
          /\ e.payload.type = "update"
          /\ Range(e.payload.modules) \cap e.declined # {} )
        => \E j \in 1..Len(e.trace) : e.trace[j].ev = "reload"

\* The data bag of the context that registered the dispose function fn.
BagOf(fn) == page.bags[fn]

\* C16: when an import replaced a module that had a dispose function
\* registered, or a prune message named such a module, the function was
\* invoked with the data bag of the context that registered it, and before
\* any accept callback of the replacement ran.
C16_DisposeInvoked ==
  \A h \in 1..Len(page.handlers) :
    LET e == page.handlers[h]
    IN  /\ \A j \in 1..Len(e.trace) :
             (e.trace[j].ev = "import" /\ e.trace[j].ok /\ e.trace[j].fn # 0) =>
               /\ j < Len(e.trace)
               /\ e.trace[j + 1].ev = "disposed"
               /\ e.trace[j + 1].fn = e.trace[j].fn
               /\ e.trace[j + 1].val = BagOf(e.trace[j].fn)
        /\ (e.payload.type = "prune" /\ e.payload.path \in DOMAIN e.pruneMap) =>
             /\ e.trace # <<>>
             /\ e.trace[1].ev = "disposed"
             /\ e.trace[1].fn = e.pruneMap[e.payload.path]
             /\ e.trace[1].val = BagOf(e.trace[1].fn)

\* ------------------------------------------------------------------------
\* DevServer.close (src/src/server.ts)
\* ------------------------------------------------------------------------
MaxCloses == 2

\* this.wss.close(), then this.httpServer.close(callback), by the close()
\* call k. The WebSocketServer (ws 8, noServer) stops handling upgrades and
\* leaves the sockets it handed out alone. The listener, when it listens,
\* stops listening and calls back once its connections have ended; when it
\* does not listen it calls back with ERR_SERVER_NOT_RUNNING and close()
\* rejects.
CloseServers(s, k) ==
  [s EXCEPT !.wss = "closed",
            !.listening = FALSE,
            !.closes[k].at = IF s.listening THEN "http" ELSE "rejected"]

\* server.close() up to its first await: with a watcher, await
\* this.watcher.close(); without one, straight on to the servers.
CloseBegin ==
  /\ Len(srv.closes) < MaxCloses
  /\ LET k == Len(srv.closes) + 1
         begun == [srv EXCEPT !.closes =
                     Append(@, [at |-> "watcher",
                                after |-> { j \in 1..Len(srv.closes) :
                                              srv.closes[j].at = "resolved" }])]
     IN  srv' = IF srv.watcher = "none"
                  THEN CloseServers(begun, k)
                  ELSE [begun EXCEPT !.watcher = "closed"]
  /\ UNCHANGED ServerVars

\* await this.watcher.close() returns.
CloseWatcherDone(k) ==
  /\ k \in 1..Len(srv.closes)
  /\ srv.closes[k].at = "watcher"
  /\ srv' = CloseServers(srv, k)
  /\ UNCHANGED ServerVars

\* The listener's close callback: every connection of the server has ended,
\* the sockets of the upgraded connections included.
CloseHttpDone(k) ==
  /\ k \in 1..Len(srv.closes)
  /\ srv.closes[k].at = "http"
  /\ DOMAIN srv.readyState = {}
  /\ \A r \in 1..Len(srv.requests) : srv.requests[r].state = "sent"
  /\ srv' = [srv EXCEPT !.closes[k].at = "resolved"]
  /\ UNCHANGED ServerVars

\* ------------------------------------------------------------------------
\* Specification of a server that is started and closed
\* ------------------------------------------------------------------------
InitClose ==
  /\ \E plugins \in SeqsUpTo(ServerPlugins, MaxServerPlugins), watch \in BOOLEAN :
       srv = NewDevServer(plugins, TRUE, watch)
  /\ page = PageIdle
  /\ hook = HookIdle
  /\ rs = ResolveIdle
  /\ BuildIdle

Closes == 1..MaxCloses

NextClose ==
  \/ Start
  \/ \E c \in Sockets : Connect(c)
  \/ \E c \in Sockets : SocketClosing(c)
  \/ \E c \in Sockets : SocketClosed(c)
  \/ CloseBegin
  \/ \E k \in Closes : CloseWatcherDone(k)
  \/ \E k \in Closes : CloseHttpDone(k)

SpecClose == InitClose /\ [][NextClose]_vars

\* The server's own steps are taken when they can be; when a browser closes
\* its socket is up to the browser.
SpecCloseFair ==
  /\ SpecClose
  /\ \A k \in Closes : WF_vars(CloseWatcherDone(k)) /\ WF_vars(CloseHttpDone(k))
  /\ \A c \in Sockets : WF_vars(SocketClosed(c))

\* C17: on a started server, a close() call made after an earlier close()
\* call had completed does not reject.
C17_CloseIdempotent ==
  srv.started = "yes" =>
    \A k \in 1..Len(srv.closes) :
      srv.closes[k].after # {} => srv.closes[k].at # "rejected"

\* C18: once a close() call has completed the watcher is stopped, the
\* listener is closed and the client set holds no open socket; and a close()
\* call on a started server completes, whatever the browsers do.
C18_CloseTearsDown ==
  /\ [](\A k \in 1..Len(srv.closes) :
          srv.closes[k].at = "resolved" =>
            /\ srv.watcher # "watching"
            /\ ~srv.listening
            /\ OpenClients(srv) = {})
  /\ (srv.started = "yes" /\ srv.closes # <<>>)
       ~> (srv.closes # <<>> /\ srv.closes[1].at = "resolved")

\* ------------------------------------------------------------------------
\* DevServer.handleRequest (src/src/server.ts)
\* ------------------------------------------------------------------------
MaxRequests == 2

\* The files of the served directory (process.cwd()), relative to it.
ServedFiles == {IndexHtml, AppTs, LibJs}

\* The pathnames requested: "/app.ts" is <<"/", "app", ".", "ts">>.
HmrClientUrl == <<"/", "__aether_hmr_client">>

Urls ==
  { <<"/">> \o f : f \in ServedFiles \ {IndexHtml} }
    \cup { <<"/">>, <<"/", "gone", ".", "ts">> }

\* getExtension(filePath): /(\.[^./\\]+)$/, the dot included; "" without a match.
getExtension(filePath) ==
  IF /\ Len(filePath) >= 2
     /\ filePath[Len(filePath) - 1] = "."
     /\ Last(filePath) \notin {".", "/"}
    THEN <<".", Last(filePath)>> ELSE <<>>

\* path.extname(filePath): as above, but a name that begins with its only dot
\* has no extension.
extname(filePath) ==
  IF Len(filePath) >= 3 /\ filePath[Len(filePath) - 2] # "/"
    THEN getExtension(filePath) ELSE <<>>

\* String.prototype.toLowerCase, on the tokens of the model.
ToLowerCase(tok) ==
  CASE tok = "TS" -> "ts"
    [] tok = "TSX" -> "tsx"
    [] tok = "JS" -> "js"
    [] OTHER -> tok

\* MIME_TYPES[ext] || 'application/octet-stream'
ContentType(ext) ==
  CASE ext = <<".", "html">> -> "text/html"
    [] ext \in {<<".", "js">>, <<".", "mjs">>, <<".", "ts">>, <<".", "tsx">>,
                <<".", "jsx">>} -> "application/javascript"
    [] ext = <<".", "css">> -> "text/css"
    [] ext \in {<<".", "json">>, <<".", "map">>} -> "application/json"
    [] OTHER -> "application/octet-stream"

\* ['.ts', '.tsx', '.jsx'].includes(ext)
IsTransformedAll(ext) ==
  ext \in {<<".", "ts">>, <<".", "tsx">>, <<".", "jsx">>, <<".", "js">>, <<".", "mjs">>}

IsTransformed(ext) == ext \in {<<".", "ts">>, <<".", "tsx">>, <<".", "jsx">>}

\* A text served is the sequence of its parts: the file's own text (named by
\* the file), then what was appended to it. The empty string is <<>>.
ContentOf(filePath) == <<filePath>>

\* What a transform hook returns: null, a string, or an object {code}.
NoResult == [kind |-> "null", code |-> <<>>]

StringResult(code) == [kind |-> "string", code |-> code]

ObjectResult(code) == [kind |-> "object", code |-> code]

\* The transform hook of the HMR plugin (runtime.ts): null outside dev mode;
\* for a script path, the code with the hot-context line appended.
HmrTransform(s, filePath, code) ==
  IF ~s.dev THEN NoResult
  ELSE IF Last(filePath) = "html" /\ Len(filePath) >= 2 /\ filePath[Len(filePath) - 1] = "."
    THEN StringResult(Append(code, "hmr-client"))
  ELSE IF hasAcceptedUpdate(filePath)
    THEN StringResult(Append(code, "import.meta.hot"))
  ELSE NoResult

\* The value plugin number i returns from transform({filePath, code, ...}).
ServerTransform(s, i, filePath, code) ==
  LET plugin == s.plugins[i]
  IN  CASE plugin.returns = "hmr" -> HmrTransform(s, filePath, code)
        [] plugin.returns = "object" -> ObjectResult(Append(code, plugin.name))
        [] plugin.returns = "code" -> StringResult(Append(code, plugin.name))
        [] plugin.returns = "empty" -> StringResult(<<>>)
        [] OTHER -> NoResult

\* if (result) finalContent = typeof result === 'string' ? result : result.code
FinalContent(finalContent, result) ==
  IF result.kind = "object" \/ (result.kind = "string" /\ result.code # <<>>)
    THEN result.code ELSE finalContent

\* res.writeHead(status, {'Content-Type': contentType}); res.end(body)
Respond(request, status, contentType, body) ==
  [request EXCEPT !.state = "sent", !.status = status,
                  !.contentType = contentType, !.body = body]

FailCrash(s, r, cause) ==
  [s EXCEPT !.requests[r] = [Respond(@, 500, "text/plain", <<"500">>) EXCEPT !.failed = cause],
            !.clients = {}, !.readyState = <<>>]

\* catch (error): 500 Internal Server Error
Fail(s, r, cause) ==
  [s EXCEPT !.requests[r] = [Respond(@, 500, "text/plain", <<"500">>) EXCEPT !.failed = cause]]

\* fileExists(path) on the tokens of a path of the served directory: true of
\* a file and of a directory above a file.
fileExists(files, filePath) ==
  \/ filePath \in files
  \/ \E f \in files : /\ Len(f) > Len(filePath)
                       /\ SubSeq(f, 1, Len(filePath) + 1) = Append(filePath, "/")

\* The decision without the fallback to the root index.html.
FileAmongNoFallback(files, pathname) ==
  LET named == IF Last(pathname) = "/" THEN pathname \o IndexHtml ELSE pathname
      filePath == Tail(named)
  IN  IF fileExists(files, filePath) THEN filePath ELSE NoPath

\* The file a pathname is served from in a directory that holds files, <<>>
\* when there is none (404).
FileAmong(files, pathname) ==
  LET named == IF Last(pathname) = "/" THEN pathname \o IndexHtml ELSE pathname
      filePath == Tail(named)
  IN  IF fileExists(files, filePath) THEN filePath
      ELSE IF getExtension(pathname) = <<>> /\ fileExists(files, IndexHtml) THEN IndexHtml
      ELSE NoPath

\* The same in the directory of the served files.
FileFor(pathname) == FileAmong(ServedFiles, pathname)

\* The request r from its position in the loop over the plugins up to its
\* next await: plugins without transform are passed over; after the last
\* plugin, res.writeHead(200, ...) and res.end(finalContent).
RECURSIVE RequestProceed(_, _)
RequestProceed(s, r) ==
  LET q == s.requests[r]
  IN  IF q.i > Len(s.plugins)
        THEN [s EXCEPT !.requests[r] = Respond(q, 200, q.contentType, q.finalContent)]
      ELSE IF "transform" \in s.plugins[q.i].hooks
        THEN s
      ELSE RequestProceed([s EXCEPT !.requests[r].i = @ + 1], r)

\* handleRequest(req, res) up to its first await or its response, filePath
\* being the file decided for the pathname.
handleRequestOf(s, r, pathname, filePath, readFails) ==
  LET ext == IF extname(filePath) = <<>> THEN <<>>
             ELSE <<".", ToLowerCase(Last(filePath))>>
      contentType == ContentType(ext)
      content == ContentOf(filePath)
      finalContent == IF contentType = "text/html"
                        THEN Append(content, "hmr-script") ELSE content
  IN  IF pathname = HmrClientUrl
        THEN [s EXCEPT !.requests[r] =
                Respond(@, 200, "application/javascript", <<"hmr-client">>)]
      ELSE IF filePath = NoPath
        THEN [s EXCEPT !.requests[r] = Respond(@, 404, "text/plain", <<"404">>)]
      ELSE IF readFails
        THEN Fail([s EXCEPT !.requests[r].filePath = filePath], r, "read")
      ELSE IF IsTransformed(ext)
        THEN RequestProceed(
               [s EXCEPT !.requests[r] =
                  [@ EXCEPT !.state = "transforming", !.filePath = filePath,
                            !.contentType = contentType, !.content = content,
                            !.finalContent = finalContent, !.i = 1]], r)
      ELSE [s EXCEPT !.requests[r] =
              Respond([@ EXCEPT !.filePath = filePath, !.content = content],
                      200, contentType, finalContent)]

handleRequest(s, r, pathname, readFails) ==
  handleRequestOf(s, r, pathname, FileFor(pathname), readFails)

\* A GET arrives. readFile may throw even for a path that exists (a
\* directory, a file removed in between, no permission).
RequestBegin(pathname) ==
  /\ srv.listening
  /\ Len(srv.requests) < MaxRequests
  /\ \E readFails \in BOOLEAN :
       LET r == Len(srv.requests) + 1
           arrived == [srv EXCEPT !.requests =
                         Append(@, [pathname |-> pathname, state |-> "arrived",
                                    filePath |-> NoPath, contentType |-> "",
                                    content |-> <<>>, finalContent |-> <<>>,
                                    i |-> 0, calls |-> <<>>, status |-> 0,
                                    body |-> <<>>, failed |-> ""])]
       IN  /\ readFails => pathname # HmrClientUrl /\ FileFor(pathname) # NoPath
           /\ srv' = handleRequest(arrived, r, pathname, readFails)
  /\ UNCHANGED ServerVars

\* The request r awaits the transform hook of plugin i.
Transforming(r) ==
  /\ r \in 1..Len(srv.requests)
  /\ srv.requests[r].state = "transforming"

\* await plugin.transform({config, filePath, content, code: finalContent}) returns.
RequestCall(r) ==
  /\ Transforming(r)
  /\ LET q == srv.requests[r]
         result == ServerTransform(srv, q.i, q.filePath, q.finalContent)
         called == [q EXCEPT !.calls = Append(@, [plugin |-> q.i, code |-> q.finalContent,
                                                  result |-> result]),
                             !.finalContent = FinalContent(@, result),
                             !.i = @ + 1]
     IN  srv' = RequestProceed([srv EXCEPT !.requests[r] = called], r)
  /\ UNCHANGED ServerVars

\* await plugin.transform(...) throws: the catch block answers 500.
RequestThrow(r) ==
  /\ Transforming(r)
  /\ srv' = Fail(srv, r, "transform")
  /\ UNCHANGED ServerVars

\* ------------------------------------------------------------------------
\* Specification of a server that serves requests while it watches
\* ------------------------------------------------------------------------
InitServe ==
  /\ \E plugins \in SeqsUpTo(ServerPlugins, MaxServerPlugins), dev \in BOOLEAN :
       srv = NewDevServer(plugins, dev, dev)
  /\ page = PageIdle
  /\ hook = HookIdle
  /\ rs = ResolveIdle
  /\ BuildIdle

Requests == 1..MaxRequests

NextServe ==
  \/ Start
  \/ \E c \in Sockets : Connect(c)
  \/ \E c \in Sockets : SocketClosing(c)
  \/ \E c \in Sockets : SocketClosed(c)
  \/ \E pathname \in Urls : RequestBegin(pathname)
  \/ \E r \in Requests : RequestCall(r)
  \/ \E r \in Requests : RequestThrow(r)
  \/ ChangeBegin(AppTs)
  \/ \E k \in 1..MaxChanges : ChangeCall(k)
  \/ \E k \in 1..MaxChanges : ChangeThrow(k)

SpecServe == InitServe /\ [][NextServe]_vars

\* The server apart from its requests.
Others(s) == [s EXCEPT !.requests = <<>>]

\* C19: a step in which a request fails (readFile threw, or a transform hook
\* threw) answers that request with status 500 and changes nothing else of
\* the server: not the client set or its sockets, not the watcher, not the
\* change handlers, not any other request.
C19_FailureIsLocal ==
  [][ \A r \in 1..Len(srv'.requests) :
        ( /\ srv'.requests[r].failed # ""
          /\ r <= Len(srv.requests) => srv.requests[r].failed = "" )
        => /\ srv'.requests[r].state = "sent"
           /\ srv'.requests[r].status = 500
           /\ Others(srv') = Others(srv)
           /\ \A q \in 1..Len(srv.requests) :
                q # r => srv'.requests[q] = srv.requests[q] ]_vars

\* Of two requests one failed in a transform hook and got 500, the other went
\* through its transforms and got 200; a change event of the same session
\* was broadcast to a connected client, and the watcher still watches.
C19_Witness ==
  /\ Len(srv.requests) = 2
  /\ \E r, q \in 1..2 :
       /\ srv.requests[r].failed = "transform" /\ srv.requests[r].status = 500
       /\ srv.requests[q].status = 200 /\ srv.requests[q].calls # <<>>
  /\ srv.sent # <<>> /\ srv.sent[1].to # {}
  /\ srv.watcher = "watching"

\* The numbers of the plugins that define transform, in list order.
Transformers(s) ==
  SelectSeq([i \in 1..Len(s.plugins) |-> i],
            LAMBDA i : "transform" \in s.plugins[i].hooks)

\* The code the call number k of a request ought to receive: the output of
\* the most recent earlier call that returned a value, else the file's text.
RECURSIVE InputOf(_, _)
InputOf(q, k) ==
  IF k = 1 THEN ContentOf(q.filePath)
  ELSE IF q.calls[k - 1].result.kind # "null" THEN q.calls[k - 1].result.code
  ELSE InputOf(q, k - 1)

\* C20: a request answered 200 from a file with a script-like extension
\* (.js, .mjs, .ts, .jsx, .tsx) had every plugin that defines transform
\* invoked once, in list order, each on the output of the most recent
\* earlier plugin that returned a value, and its body is the output of the
\* last plugin that returned a value.
C20_EveryPluginTransforms ==
  \A r \in 1..Len(srv.requests) :
    LET q == srv.requests[r]
    IN  ( /\ q.state = "sent" /\ q.status = 200
          /\ q.filePath # NoPath
          /\ Len(q.filePath) >= 2 /\ q.filePath[Len(q.filePath) - 1] = "."
          /\ Last(q.filePath) \in {"js", "mjs", "ts", "jsx", "tsx"} )
        => /\ [k \in 1..Len(q.calls) |-> q.calls[k].plugin] = Transformers(srv)
           /\ \A k \in 1..Len(q.calls) : q.calls[k].code = InputOf(q, k)
           /\ q.body = InputOf(q, Len(q.calls) + 1)

\* ------------------------------------------------------------------------
\* The loops that await a hook of each plugin, one step per suspension:
\* applyPluginHook (src/src/plugins.ts), the transform loop of processFile
\* (src/src/build.ts) and the transform loop of handleRequest
\* (src/src/server.ts). Specification of two such loops running on one
\* plugin list, each in a context of its own.
\* ------------------------------------------------------------------------
MaxAwaitPlugins == 2

LoopIds == {"first", "second"}

\* The loops and the hook each of them invokes.
LoopKinds ==
  { [kind |-> "applyPluginHook", hookName |-> "buildStart", filePath |-> NoPath],
    [kind |-> "processFile", hookName |-> "transform", filePath |-> IndexTs],
    [kind |-> "handleRequest", hookName |-> "transform", filePath |-> AppTs] }

AwaitPlugins ==
  { Plugin("plain", {}, "null", NoPath, NoPath),
    Plugin("ts", {"buildStart", "transform"}, "object", NoPath, NoPath),
    Plugin("react", {"transform"}, "code", NoPath, NoPath) }

\* The list a loop runs over: the DevServer puts its HMR plugin first.
LoopPlugins(kind, plugins) ==
  IF kind = "handleRequest" THEN <<HmrPlugin>> \o plugins ELSE plugins

\* An error value: its message and the properties the claims look for on
\* it. An Error a hook makes with `new Error(message)` has none of them.
ErrorValue(message, plugin, hookName, filePath) ==
  [message |-> message, plugin |-> plugin, hook |-> hookName, filePath |-> filePath]

NoError == ErrorValue("", "", "", NoPath)

\* What a hook may throw: a plain Error, or an Error on which the plugin
\* itself wrote its name, the hook and the module.
ThrownBy(plugin, hookName, filePath) ==
  { ErrorValue("boom", "", "", NoPath),
    ErrorValue("boom", plugin.name, hookName, filePath) }

\* catch (error) { console.error(`Error in plugin ${plugin.name} ...`, error);
\* throw error }: the value caught is the value thrown on.
Rethrown(error, plugin, hookName, filePath) == error

\* A loop at its first iteration: no invocation was made.
Loop(kind, hookName, filePath, plugins) ==
  [kind |-> kind, hookName |-> hookName, filePath |-> filePath,
   plugins |-> LoopPlugins(kind, plugins),
   i |-> 1, at |-> "loop", inflight |-> {}, log |-> <<>>, error |-> NoError]

Began(i) == [ev |-> "start", plugin |-> i]

Ended(i) == [ev |-> "end", plugin |-> i]

AfterInvokeNotAwaited(l) ==
  [l EXCEPT !.i = @ + 1, !.inflight = @ \cup {l.i}, !.log = Append(@, Began(l.i))]

\* await hook(context): the invocation is made and the loop is suspended
\* until the promise it returned is settled.
AfterInvoke(l) ==
  [l EXCEPT !.at = "awaiting", !.inflight = @ \cup {l.i},
            !.log = Append(@, Began(l.i))]

\* typeof hook !== 'function' / if (plugin.transform) is false.
AwaitSkip(c) ==
  /\ hook[c].at = "loop"
  /\ hook[c].i <= Len(hook[c].plugins)
  /\ hook[c].hookName \notin hook[c].plugins[hook[c].i].hooks
  /\ hook' = [hook EXCEPT ![c].i = @ + 1]
  /\ UNCHANGED <<srv, page, rs, fs, ctx, stack, pc, events, written>>

\* The hook of the plugin at the loop's position is invoked.
AwaitInvoke(c) ==
  /\ hook[c].at = "loop"
  /\ hook[c].i <= Len(hook[c].plugins)
  /\ hook[c].hookName \in hook[c].plugins[hook[c].i].hooks
  /\ hook' = [hook EXCEPT ![c] = AfterInvoke(@)]
  /\ UNCHANGED <<srv, page, rs, fs, ctx, stack, pc, events, written>>

\* An invocation in flight returns; a loop that awaits it goes on with the
\* next plugin.
AwaitSettle(c) ==
  /\ \E j \in hook[c].inflight :
       LET l == hook[c]
           ended == [l EXCEPT !.inflight = @ \ {j}, !.log = Append(@, Ended(j))]
       IN  hook' = [hook EXCEPT ![c] =
                      IF l.at = "awaiting" /\ l.i = j
                        THEN [ended EXCEPT !.at = "loop", !.i = @ + 1]
                        ELSE ended]
  /\ UNCHANGED <<srv, page, rs, fs, ctx, stack, pc, events, written>>

\* An invocation in flight throws; a loop that awaits it ends (the catch
\* blocks rethrow or answer 500).
AwaitReject(c) ==
  /\ \E j \in hook[c].inflight :
       LET l == hook[c]
           ended == [l EXCEPT !.inflight = @ \ {j}, !.log = Append(@, Ended(j))]
       IN  \E error \in ThrownBy(l.plugins[j], l.hookName, l.filePath) :
             hook' = [hook EXCEPT ![c] =
                        IF l.at = "awaiting" /\ l.i = j
                          THEN [ended EXCEPT
                                  !.at = "thrown",
                                  !.error = Rethrown(error, l.plugins[j],
                                                     l.hookName, l.filePath)]
                          ELSE ended]
  /\ UNCHANGED <<srv, page, rs, fs, ctx, stack, pc, events, written>>

\* The loop is over.
AwaitReturn(c) ==
  /\ hook[c].at = "loop"
  /\ hook[c].i > Len(hook[c].plugins)
  /\ hook' = [hook EXCEPT ![c].at = "returned"]
  /\ UNCHANGED <<srv, page, rs, fs, ctx, stack, pc, events, written>>

InitAwait ==
  /\ \E plugins \in SeqsUpTo(AwaitPlugins, MaxAwaitPlugins) :
       \E kinds \in [LoopIds -> LoopKinds] :
         hook = [c \in LoopIds |->
                   Loop(kinds[c].kind, kinds[c].hookName, kinds[c].filePath, plugins)]
  /\ rs = ResolveIdle
  /\ BuildIdle
  /\ srv = ServerIdle
  /\ page = PageIdle

NextAwait ==
  \/ \E c \in LoopIds : AwaitSkip(c)
  \/ \E c \in LoopIds : AwaitInvoke(c)
  \/ \E c \in LoopIds : AwaitSettle(c)
  \/ \E c \in LoopIds : AwaitReject(c)
  \/ \E c \in LoopIds : AwaitReturn(c)

SpecAwait == InitAwait /\ [][NextAwait]_vars

\* The plugins of a loop that define its hook and lie before position n.
DefiningBefore(l, n) ==
  { j \in 1..Len(l.plugins) : j < n /\ l.hookName \in l.plugins[j].hooks }

\* The plugins invoked so far, in the order of the invocations.
Starts(l) ==
  LET s == SelectSeq(l.log, LAMBDA e : e.ev = "start")
  IN  [k \in 1..Len(s) |-> s[k].plugin]

\* C21: in each context the hooks are invoked in list order, the plugins
\* without the hook are skipped, every invocation is made after the one
\* before it has completed, and never are two invocations of one context in
\* flight.
C21_Sequential ==
  \A c \in LoopIds :
    LET l == hook[c]
        starts == Starts(l)
    IN  /\ Cardinality(l.inflight) <= 1
        /\ \A k \in 1..Len(l.log) :
             /\ l.log[k].ev = "start" =>
                  (k = Len(l.log) \/ l.log[k + 1] = Ended(l.log[k].plugin))
             /\ l.log[k].ev = "end" => (k > 1 /\ l.log[k - 1] = Began(l.log[k].plugin))
        /\ \A k \in 1..(Len(starts) - 1) : starts[k] < starts[k + 1]
        /\ \A k \in 1..Len(starts) : l.hookName \in l.plugins[starts[k]].hooks
        /\ l.at \in {"loop", "returned"} => Range(starts) = DefiningBefore(l, l.i)
        /\ l.at = "returned" => l.i = Len(l.plugins) + 1

\* A request's loop invoked the HMR plugin and a second plugin one after the
\* other, past a plugin without the hook, while the invocation of the other
\* context is in flight.
C21_Witness ==
  /\ hook["first"].kind = "handleRequest"
  /\ hook["first"].at = "returned"
  /\ Len(Starts(hook["first"])) >= 2
  /\ Len(hook["first"].plugins) > Len(Starts(hook["first"]))
  /\ hook["second"].inflight # {}

\* C22: the error a failed pipeline call or a failed build hands to its
\* caller names the plugin that threw and the hook, and for the build's
\* transform loop also the module.
C22_ErrorIsTagged ==
  \A c \in LoopIds :
    LET l == hook[c]
    IN  (l.at = "thrown" /\ l.kind \in {"applyPluginHook", "processFile"}) =>
          /\ l.error.plugin = l.plugins[l.i].name
          /\ l.error.hook = l.hookName
          /\ l.kind = "processFile" => l.error.filePath = l.filePath

\* The plugins of the call that define resolveId.
Resolvers == { i \in 1..Len(rs.plugins) : "resolveId" \in rs.plugins[i].hooks }

\* The resolvers that answer the source with a path.
Answering(source) == { i \in Resolvers : rs.plugins[i].resolveFrom = source }

\* C23: for a specifier that is not external the resolveId hooks are asked
\* in list order, each with the importer and the source; the first that
\* answers with a path gives resolved, no resolver after it is asked and the
\* filesystem is not probed; when none answers all were asked.
C23_FirstResolverWins ==
  (Resolved /\ ~rs.out[1].isExternal) =>
    LET out == rs.out[1]
        asked == [k \in 1..Len(out.calls) |-> out.calls[k].plugin]
        source == IF out.calls = <<>> THEN rs.specifier ELSE out.calls[1].source
        answering == Answering(source)
    IN  /\ \A k \in 1..Len(out.calls) :
             /\ out.calls[k].importer = rs.importer
             /\ out.calls[k].source = source
             /\ rs.specifier \notin DOMAIN rs.config.alias => source = rs.specifier
        /\ \A k \in 1..(Len(asked) - 1) : asked[k] < asked[k + 1]
        /\ IF answering = {}
             THEN Range(asked) = Resolvers
             ELSE /\ Range(asked) = { i \in Resolvers : i <= Min(answering) }
                  /\ out.resolved = rs.plugins[Min(answering)].resolveTo
                  /\ out.probes = <<>>

\* Two plugins resolve "./util" to different paths and util.ts exists: the
\* first plugin's path was returned, the second was not asked and nothing
\* was probed.
C23_Witness ==
  /\ Resolved
  /\ rs.specifier = RelUtil
  /\ Len(rs.plugins) = 2
  /\ rs.plugins[1].resolveTo = VirtualUtil
  /\ rs.plugins[2].resolveTo = OtherUtil
  /\ SrcDir \o <<"util.ts">> \in rs.files
  /\ rs.out[1].resolved = VirtualUtil
  /\ Len(rs.out[1].calls) = 1
  /\ rs.out[1].probes = <<>>

\* The plugins of the build whose transform returns a result that is not
\* null.
ValuedTransforms ==
  { i \in Defining("transform") : ctx.config.plugins[i].returns \notin {"null", "undefined"} }

\* C24: the code and the map stored for a module both come from the last
\* plugin whose transform returned a result: a map of an earlier plugin is
\* never stored with the code of a later plugin that returned no map.
C24_StoredIsLastWins ==
  \A k \in 1..Len(ctx.outputs) :
    LET entry == ctx.outputs[k]
    IN  IF ValuedTransforms = {}
          THEN entry.code.by = 0 /\ entry.map = 0
          ELSE LET last == Max(ValuedTransforms)
               IN  /\ entry.code.by = last
                   /\ entry.map = IF ctx.config.plugins[last].returns = "object"
                                    THEN last ELSE 0

\* ------------------------------------------------------------------------
\* Specification of one build() call on projects with cycles, external and
\* unmatched imports, and missing and empty source files
\* ------------------------------------------------------------------------
RelLibIndex == <<".", "/", "lib", "/", "index">>

GraphProjects ==
  { Project(<<RelA, Lodash, RelNope, NoImport, RelB, RelA>>,
            <<RelIndex, RelB>>, <<CdnUrl, RelA, AliasedA>>),
    Project(<<RelA, RelNope, RelB>>, Missing, <<RelA>>),
    Project(<<RelA, RelB, Lodash>>, <<>>, <<RelA, RelNope>>),
    Project(<<RelNope, CdnUrl, RelA>>, <<RelB, RelA>>, Missing),
    Project(<<RelLib, RelA>>, <<RelB>>, <<NoImport>>),
    Project(<<RelNope, RelA, RelLibIndex>>, <<>>, Missing) }

\* "virtual" resolves "./nope" to b.ts, whether or not b.ts exists.
GraphPlugins ==
  { Plugin("ts", {"buildStart", "transform", "buildEnd", "closeBundle"},
           "object", NoPath, NoPath),
    Plugin("virtual", {"resolveId"}, "null", RelNope, BTs) }

GraphConfigs ==
  { [entry |-> entry, plugins |-> plugins, outDir |-> <<".", "/", "dist">>,
     alias |-> [t \in {AliasedA} |-> RelA], extensions |-> <<>>,
     sourcemap |-> TRUE] :
      entry \in EntryConfigs, plugins \in SeqsUpTo(GraphPlugins, MaxPlugins) }

InitGraph ==
  /\ fs \in GraphProjects
  /\ \E config \in GraphConfigs : ctx = NoContext(config)
  /\ stack = <<>>
  /\ pc = [at |-> "create", n |-> 0]
  /\ events = <<>>
  /\ written = <<>>
  /\ hook = HookIdle
  /\ rs = ResolveIdle
  /\ srv = ServerIdle
  /\ page = PageIdle

SpecGraph == InitGraph /\ [][Next]_vars

\* The edges recorded in the ModuleGraph: importer and DependencyInfo.
RecordedEdges ==
  UNION { { [importer |-> m, dep |-> ctx.moduleGraph[m][k]] :
              k \in 1..Len(ctx.moduleGraph[m]) } : m \in DOMAIN ctx.moduleGraph }

\* The identities the session holds: the keys of the ModuleGraph and of the
\* output map, and the visited set.
SessionKeys == DOMAIN ctx.moduleGraph \cup MapKeys(ctx.outputs) \cup ctx.processed

\* The specifier is a URL or a bare specifier without an alias.
ExternalLike(specifier) ==
  \/ UrlLike(specifier)
  \/ BareLike(specifier) /\ specifier \notin DOMAIN ctx.config.alias

ImportedBy(m) ==
  IF m \in DOMAIN ctx.dependencies THEN ctx.dependencies[m] ELSE {}

\* The targets of the edges of m's ModuleGraph entry that are resolved and
\* not external.
ForwardOf(m) ==
  IF m \notin DOMAIN ctx.moduleGraph THEN {}
  ELSE { dep.resolved : dep \in { x \in Range(ctx.moduleGraph[m]) : Traversed(x) } }

\* C26: every importer edge recorded has a forward edge in the ModuleGraph,
\* and once the traversal has ended without failure the two maps agree: d is
\* recorded as imported by m exactly when m's entry has a resolved,
\* non-external edge to d.
C26_EdgeMapsAgree ==
  /\ \A m \in DOMAIN ctx.dependencies : ImportedBy(m) \subseteq ForwardOf(m)
  /\ Traversed_All =>
       \A m \in DOMAIN ctx.dependencies \cup DOMAIN ctx.moduleGraph :
         ImportedBy(m) = ForwardOf(m)

\* A build is over in which a.ts and b.ts import each other and index.ts
\* imports both: the edge back to the module in progress and the edge to the
\* module visited before are recorded.
C26_Witness ==
  /\ pc.at = "done"
  /\ ATs \in ImportedBy(BTs)
  /\ BTs \in ImportedBy(ATs)
  /\ {ATs, BTs} \subseteq ImportedBy(IndexTs)
  /\ IndexTs \in ImportedBy(ATs)

\* The module was visited and its source file is missing or empty.
SkippedModule(m) ==
  /\ m \in ctx.processed
  /\ m \notin DOMAIN fs \/ fs[m] = <<>>
  /\ ~ReadThrows(fs, m)

\* The module whose output is stored and whose ModuleGraph entry is not yet:
\* the processFile call in progress that awaits processDependencies.
BetweenStoreAndGraph ==
  IF stack # <<>> /\ Top.at = "deps" THEN {Top.filePath} ELSE {}

\* C27: a visited module whose source file is missing or empty had no
\* transform invoked on it and has no entry in the output map or the
\* ModuleGraph and no output file; it does not fail the build and what comes
\* after it is still processed; the keys of the ModuleGraph are the keys of
\* the output map (but for the module a step is storing) and all of them are
\* visited.
C27_MissingSourceSkipped ==
  /\ \A m \in ctx.processed :
       SkippedModule(m) =>
         /\ \A i \in Defining("transform") : Invocations("transform", i, m) = 0
         /\ Stores(m) = 0
         /\ m \notin MapKeys(ctx.outputs)
         /\ m \notin DOMAIN ctx.moduleGraph
         /\ \A k \in 1..Len(events) : events[k] # Wrote(FinalPath(ctx.config, m))
  /\ MapKeys(ctx.outputs) = DOMAIN ctx.moduleGraph \cup BetweenStoreAndGraph
  /\ MapKeys(ctx.outputs) \subseteq ctx.processed
  /\ pc = Failed => FailureCause
  /\ Traversed_All =>
       /\ Range(ctx.entryPoints) \subseteq ctx.processed
       /\ \A e \in RecordedEdges : Traversed(e.dep) => e.dep.resolved \in ctx.processed

\* A build is over in which index.ts imported a missing module, then an
\* empty one, then a module that was transformed and stored.
C27_Witness ==
  /\ pc.at = "done"
  /\ Defining("transform") # {}
  /\ BTs \notin DOMAIN fs /\ SkippedModule(BTs)
  /\ ATs \in DOMAIN fs /\ SkippedModule(ATs)
  /\ {BTs, ATs, LibIndexTs} \subseteq ImportedBy(IndexTs)
  /\ LibIndexTs \in MapKeys(ctx.outputs)
  /\ FinalPath(ctx.config, LibIndexTs) \in DOMAIN written

\* The entry configuration of the build is none of the three accepted forms.
InvalidEntry == ctx.config.entry.kind \notin {"string", "array", "object"}

\* C28: with an entry configuration that is not a string, an array or an
\* object of paths, build() fails at its first step: no hook of any plugin
\* is invoked, nothing is visited or stored and no file is written.
C28_InvalidEntryFailsFirst ==
  InvalidEntry =>
    /\ pc.at \in {"create", "failed"}
    /\ events = <<>>
    /\ hook = HookIdle
    /\ stack = <<>>
    /\ ctx.processed = {}
    /\ ctx.outputs = <<>>
    /\ written = <<>>
    /\ pc = Failed => ~CanStep

\* A build with an invalid entry configuration has failed; its plugins
\* define buildStart, transform, buildEnd and closeBundle.
C28_Witness ==
  /\ pc = Failed
  /\ InvalidEntry
  /\ \A h \in {"buildStart", "transform", "buildEnd", "closeBundle"} : Defining(h) # {}
  /\ IndexTs \in DOMAIN fs

\* The processFile calls in progress on the identity m.
FramesOn(stk, m) == { k \in 1..Len(stk) : stk[k].filePath = m }

\* Where an identity stands: 0 unvisited, 1 visited and being processed,
\* 2 visited and done.
StatusOf(processed, stk, m) ==
  IF m \notin processed THEN 0
  ELSE IF FramesOn(stk, m) # {} THEN 1
  ELSE 2

\* C29: an identity goes from unvisited to processing to done and never
\* back; a processFile call gets past the guard on an identity only in the
\* step that marks it visited, so an identity is never in two calls in
\* progress and every call in progress is on a visited identity.
C29_VisitedGuardAtomic ==
  /\ [](\A m \in AllPaths : Cardinality(FramesOn(stack, m)) <= 1)
  /\ [](\A k \in 1..Len(stack) : stack[k].filePath \in ctx.processed)
  /\ [][\A m \in AllPaths :
          /\ StatusOf(ctx.processed', stack', m) >= StatusOf(ctx.processed, stack, m)
          /\ FramesOn(stack', m) # {} /\ FramesOn(stack, m) = {} =>
               m \notin ctx.processed /\ m \in ctx.processed']_vars

\* index.ts, a.ts and b.ts are being processed inside one another and b.ts
\* has met its import of a.ts, which is still in progress.
C29_Witness ==
  /\ Len(stack) = 3
  /\ stack[2].filePath = ATs
  /\ Top.filePath = BTs
  /\ Top.at = "recurse"
  /\ \E j \in 1..(Top.d - 1) : Top.dependencies[j].resolved = ATs
  /\ StatusOf(ctx.processed, stack, ATs) = 1

\* ------------------------------------------------------------------------
\* Specification of a server and two browser tabs: upgrades on the HMR path
\* and elsewhere, sockets closing, broadcasts, shutdown
\* ------------------------------------------------------------------------
Tabs == {"tab1", "tab2"}

\* A browser asks for an upgrade on a path other than /__aether_hmr: the
\* upgrade handler does nothing with it (if (request.url === '/__aether_hmr')
\* is false); the connection stays as it is, not upgraded.
UpgradeElsewhere(c) ==
  /\ srv.listening
  /\ c \notin DOMAIN srv.readyState
  /\ srv' = [srv EXCEPT !.readyState = (c :> "raw") @@ @]
  /\ UNCHANGED ServerVars

\* The browser gives up a connection that was never upgraded.
RawDropped(c) ==
  /\ c \in DOMAIN srv.readyState /\ srv.readyState[c] = "raw"
  /\ srv' = [srv EXCEPT !.readyState = [s \in DOMAIN @ \ {c} |-> @[s]]]
  /\ UNCHANGED ServerVars

InitClients ==
  /\ \E plugins \in SeqsUpTo(ServerPlugins, MaxServerPlugins) :
       srv = NewDevServer(plugins, TRUE, TRUE)
  /\ page = PageIdle
  /\ hook = HookIdle
  /\ rs = ResolveIdle
  /\ BuildIdle

NextClients ==
  \/ Start
  \/ \E c \in Tabs : Connect(c)
  \/ \E c \in Tabs : UpgradeElsewhere(c)
  \/ \E c \in Tabs : RawDropped(c)
  \/ \E c \in Tabs : SocketClosing(c)
  \/ \E c \in Tabs : SocketClosed(c)
  \/ \E path \in {AppTs, StyleCss} : ChangeBegin(path)
  \/ \E k \in 1..MaxChanges : ChangeCall(k)
  \/ \E k \in 1..MaxChanges : ChangeThrow(k)
  \/ CloseBegin
  \/ \E k \in Closes : CloseWatcherDone(k)

SpecClients == InitClients /\ [][NextClients]_vars

\* The channels that completed the upgrade on the HMR path and have not
\* emitted close.
Upgraded(s) == { c \in DOMAIN s.readyState : s.readyState[c] \in {"open", "closing"} }

\* The channels that are open.
OpenChannels(s) == { c \in DOMAIN s.readyState : s.readyState[c] = "open" }

\* C30: the client set is the set of channels upgraded on the HMR path that
\* have not emitted close; a broadcast adds one payload, given once to
\* exactly the channels open at that moment, and changes no membership.
C30_BroadcastToOpenMembers ==
  /\ [](srv.clients = Upgraded(srv))
  /\ [][Len(srv'.sent) > Len(srv.sent) =>
          /\ Len(srv'.sent) = Len(srv.sent) + 1
          /\ SubSeq(srv'.sent, 1, Len(srv.sent)) = srv.sent
          /\ Last(srv'.sent).to = OpenChannels(srv)
          /\ srv'.clients = srv.clients
          /\ srv'.readyState = srv.readyState]_vars

\* A broadcast was sent to tab1 alone while tab2 was a member whose socket
\* was closing.
C30_Witness ==
  /\ srv.sent # <<>>
  /\ Last(srv.sent).to = {"tab1"}
  /\ srv.clients = {"tab1", "tab2"}
  /\ srv.readyState["tab2"] = "closing"
  /\ srv.changes[Len(srv.changes)].state = "done"

\* ------------------------------------------------------------------------
\* Modules that are evaluated again by a hot update
\* (src/src/hmr/runtime.ts: the code appended to every module;
\* src/src/hmr/client.ts: createHotContext, updateModules)
\* ------------------------------------------------------------------------
\* A page that also keeps what the modules stored in the data object of each
\* hot context (data), what every evaluation found there (evals) and the
\* URLs the browser has loaded (urls: a URL loaded before is not evaluated
\* again, the module map answers it).
NewEvaluatingPage(dist) ==
  [data |-> <<>>, evals |-> <<>>, urls |-> {}] @@ NewPage(dist)

DataCarriedOver(p, ownerPath) ==
  LET before == { x \in 1..Len(p.contexts) : p.contexts[x] = ownerPath }
  IN  IF before = {} THEN {} ELSE p.data[Max(before)]

\* data: {} -- the data object of a context that createHotContext returns.
FreshData(p, ownerPath) == {}

\* The module ownerPath is evaluated: the appended code runs
\* import.meta.hot = __AETHER_CREATE_HOT__(ownerPath); the module reads
\* hot.data, stores a value of its own in it and registers one accept
\* callback.
Evaluated(p, ownerPath) ==
  LET made == createHotContext(p, ownerPath)
      x == Len(made.contexts)
      found == FreshData(p, ownerPath)
      fn == made.fns + 1
  IN  [made EXCEPT
         !.evals = Append(@, [path |-> ownerPath, context |-> x, found |-> found]),
         !.data = Append(@, found \cup {x}),
         !.fns = fn,
         !.calls = @ + 1,
         !.hotModules[made.hotModulesMap[ownerPath]].callbacks = Append(@, fn)]

\* The URL a module is loaded from when the page loads.
PlainUrl(path) == [path |-> path, t |-> 0]

\* The page loads the module: its first evaluation.
Evaluate(ownerPath) ==
  /\ PlainUrl(ownerPath) \notin page.urls
  /\ page' = [Evaluated(page, ownerPath) EXCEPT !.urls = @ \cup {PlainUrl(ownerPath)}]
  /\ UNCHANGED PageVars

\* await import(url) resolves: a URL not loaded before is fetched and the
\* module is evaluated before the promise resolves.
ImportEvaluates(h) ==
  /\ Importing(h)
  /\ LET e == page.handlers[h]
         path == e.payload.modules[e.idx]
         url == BustUrl(path, StampOf(e.payload))
         val == [url |-> url, load |-> page.loads + 1]
         loaded == IF url \in page.urls THEN page
                   ELSE [Evaluated(page, path) EXCEPT !.urls = @ \cup {url}]
     IN  page' = [Trace(loaded, h, Logged("import", h, e.idx, path,
                                          RegisteredDispose(page, path), val, TRUE))
                    EXCEPT !.loads = @ + 1,
                           !.handlers[h].at = "callbacks",
                           !.handlers[h].val = val]
  /\ UNCHANGED PageVars

InitEvaluate ==
  /\ \E dist \in BOOLEAN : page = NewEvaluatingPage(dist)
  /\ srv = ServerIdle
  /\ hook = HookIdle
  /\ rs = ResolveIdle
  /\ BuildIdle

NextEvaluate ==
  \/ \E ownerPath \in Modules : Evaluate(ownerPath)
  \/ \E payload \in Messages : Receive(payload)
  \/ \E h \in Handlers : ImportEvaluates(h)
  \/ \E h \in Handlers : ImportFail(h)
  \/ \E h \in Handlers : CallbackOk(h)
  \/ \E h \in Handlers : CallbackFail(h)
  \/ \E h \in Handlers : ModuleUpdated(h)

SpecEvaluate == InitEvaluate /\ [][NextEvaluate]_vars

\* The evaluations of the module of evaluation k that came before it.
EarlierEvaluations(k) ==
  { j \in 1..(k - 1) : page.evals[j].path = page.evals[k].path }

\* C31: when a module is evaluated again after a hot update, the data of the
\* hot context it obtains holds what its evaluation before stored in the
\* data of its hot context then.
C31_DataSurvives ==
  \A k \in 1..Len(page.evals) :
    EarlierEvaluations(k) # {} =>
      page.data[page.evals[Max(EarlierEvaluations(k))].context]
        \subseteq page.evals[k].found

\* C35: a module that registers one accept callback at each of its
\* evaluations has exactly one callback in the registry, however many hot
\* updates have evaluated it again.
C35_OneCallbackPerModule ==
  \A m \in DOMAIN page.hotModulesMap :
    Len(page.hotModules[page.hotModulesMap[m]].callbacks) = 1

\* ------------------------------------------------------------------------
\* The calls a module makes on its hot context, with their outcomes
\* (src/src/hmr/client.ts createHotContext; src/unnamed/part_000)
\* ------------------------------------------------------------------------
\* A page that also keeps, for every call made on a hot context, whether it
\* returned or raised (outcomes).
NewCalledPage(dist) == [outcomes |-> <<>>] @@ NewPage(dist)

Outcome(p, x, method, raised) ==
  [p EXCEPT !.outcomes = Append(@, [context |-> x, method |-> method,
                                    raised |-> raised]),
            !.calls = @ + 1]

\* hotModulesMap.get(ownerPath)!.callbacks.push(callback): reading
\* .callbacks of undefined raises a TypeError when the owner has no entry.
accept(p, x, method) ==
  LET ownerPath == p.contexts[x]
      fn == p.fns + 1
  IN  IF ownerPath \in DOMAIN p.hotModulesMap
        THEN Outcome([p EXCEPT
                        !.fns = fn,
                        !.hotModules[p.hotModulesMap[ownerPath]].callbacks =
                          Append(@, fn)],
                     x, method, FALSE)
        ELSE Outcome([p EXCEPT !.fns = fn], x, method, TRUE)

\* hotModulesMap.delete(ownerPath)
decline(p, x) ==
  Outcome([p EXCEPT !.hotModulesMap = Deleted(@, p.contexts[x]),
                    !.declined = @ \cup {p.contexts[x]}],
          x, "decline", FALSE)

\* pruneMap.set(ownerPath, callback)
dispose(p, x, method) ==
  LET fn == p.fns + 1
  IN  Outcome([p EXCEPT !.fns = fn,
                        !.bags = (fn :> x) @@ @,
                        !.pruneMap = WithKey(@, p.contexts[x], fn)],
              x, method, FALSE)

\* The context of the dist build has no prune member: calling it raises a
\* TypeError.
prune(p, x) ==
  IF p.dist THEN Outcome([p EXCEPT !.fns = @ + 1], x, "prune", TRUE)
            ELSE dispose(p, x, "prune")

Callable(x) ==
  /\ HotCalls(page) < MaxHotCalls
  /\ x \in 1..Len(page.contexts)

HotAccept(x) ==
  /\ Callable(x)
  /\ page' = accept(page, x, "accept")
  /\ UNCHANGED PageVars

HotAcceptDeps(x) ==
  /\ Callable(x)
  /\ page' = accept(page, x, "acceptDeps")
  /\ UNCHANGED PageVars

HotDecline(x) ==
  /\ Callable(x)
  /\ page' = decline(page, x)
  /\ UNCHANGED PageVars

HotDispose(x) ==
  /\ Callable(x)
  /\ page' = dispose(page, x, "dispose")
  /\ UNCHANGED PageVars

HotPrune(x) ==
  /\ Callable(x)
  /\ page' = prune(page, x)
  /\ UNCHANGED PageVars

InitContext ==
  /\ \E dist \in BOOLEAN : page = NewCalledPage(dist)
  /\ srv = ServerIdle
  /\ hook = HookIdle
  /\ rs = ResolveIdle
  /\ BuildIdle

NextContext ==
  \/ \E ownerPath \in Modules : CreateHotContext(ownerPath)
  \/ \E x \in Contexts : HotAccept(x)
  \/ \E x \in Contexts : HotAcceptDeps(x)
  \/ \E x \in Contexts : HotDecline(x)
  \/ \E x \in Contexts : HotDispose(x)
  \/ \E x \in Contexts : HotPrune(x)

SpecContext == InitContext /\ [][NextContext]_vars

\* C38: accept(cb) and acceptDeps(deps, cb) called on a hot context return
\* without raising, also after decline() was called on that context.
C38_AcceptNeverRaises ==
  \A k \in 1..Len(page.outcomes) :
    page.outcomes[k].method \in {"accept", "acceptDeps"} =>
      ~page.outcomes[k].raised

\* ------------------------------------------------------------------------
\* The client's socket (src/src/hmr/client.ts createWebSocket, initialize;
\* src/unnamed/part_000)
\* ------------------------------------------------------------------------
MaxSockets == 4

\* setTimeout(createWebSocket, 1000): the delay, in ms.
Backoff == 1000

\* The amounts of time, in ms, the page's clock is seen to advance by.
Elapses == {500, 1000}

\* new WebSocket(socketUrl) with its four listeners; socket is the last one.
createWebSocket(p) ==
  [p EXCEPT !.sockets = Append(@, [state |-> "connecting", errors |-> 0]),
            !.socket = Len(p.sockets) + 1]

\* The 'close' listener without its setTimeout.
onCloseNoRetry(p, s) ==
  [p EXCEPT !.sockets[s].state = "closed",
            !.isConnected = FALSE]

\* The 'close' listener: isConnected = false;
\* setTimeout(createWebSocket, 1000).
onClose(p, s) ==
  [p EXCEPT !.sockets[s].state = "closed",
            !.isConnected = FALSE,
            !.timers = Append(@, [left |-> Backoff, fired |-> FALSE, by |-> s])]

\* The page after initialize(): createWebSocket() was called once.
NewSocketPage(dist) ==
  createWebSocket([dist |-> dist, sockets |-> <<>>, socket |-> 0,
                   isConnected |-> FALSE, timers |-> <<>>])

Live(p) == { s \in 1..Len(p.sockets) : p.sockets[s].state \in {"connecting", "open"} }

ClosedSockets(p) == { s \in 1..Len(p.sockets) : p.sockets[s].state = "closed" }

\* The 'open' event of socket s.
SocketOpen(s) ==
  /\ s \in 1..Len(page.sockets)
  /\ page.sockets[s].state = "connecting"
  /\ page' = [page EXCEPT !.sockets[s].state = "open", !.isConnected = TRUE]
  /\ UNCHANGED PageVars

\* The 'error' event of socket s (a failed connection, a broken channel):
\* the listener logs it.
SocketError(s) ==
  /\ s \in Live(page)
  /\ page.sockets[s].errors = 0
  /\ page' = [page EXCEPT !.sockets[s].errors = @ + 1]
  /\ UNCHANGED PageVars

\* The 'close' event of socket s; a socket emits it once.
SocketClose(s) ==
  /\ s \in Live(page)
  /\ Len(page.sockets) < MaxSockets
  /\ page' = onClose(page, s)
  /\ UNCHANGED PageVars

\* Time passes on the page while a timer is pending.
Elapse(d) ==
  /\ \E t \in 1..Len(page.timers) : page.timers[t].left > 0
  /\ page' = [page EXCEPT !.timers =
                [t \in 1..Len(page.timers) |->
                   [page.timers[t] EXCEPT !.left = Max({0, @ - d})]]]
  /\ UNCHANGED PageVars

\* The timer t is due and runs createWebSocket.
TimerFires(t) ==
  /\ t \in 1..Len(page.timers)
  /\ ~page.timers[t].fired
  /\ page.timers[t].left = 0
  /\ page' = [createWebSocket(page) EXCEPT !.timers[t].fired = TRUE]
  /\ UNCHANGED PageVars

InitSocket ==
  /\ \E dist \in BOOLEAN : page = NewSocketPage(dist)
  /\ srv = ServerIdle
  /\ hook = HookIdle
  /\ rs = ResolveIdle
  /\ BuildIdle

SocketIds == 1..MaxSockets

NextSocket ==
  \/ \E s \in SocketIds : SocketOpen(s)
  \/ \E s \in SocketIds : SocketError(s)
  \/ \E s \in SocketIds : SocketClose(s)
  \/ \E d \in Elapses : Elapse(d)
  \/ \E t \in SocketIds : TimerFires(t)

SpecSocket == InitSocket /\ [][NextSocket]_vars

\* The browser's event loop: time passes and a due timer runs.
SpecSocketFair ==
  /\ SpecSocket
  /\ WF_vars(\E d \in Elapses : Elapse(d))
  /\ \A t \in SocketIds : WF_vars(TimerFires(t))

Fired(p) == { t \in 1..Len(p.timers) : p.timers[t].fired }

\* C32: every close of a socket schedules exactly one reconnect with the
\* 1000 ms delay; a new socket is made only by a timer that ran its full
\* delay, so a new connection attempt eventually follows each close, and at
\* most one socket is connecting or open at any time.
C32_OneSocketReconnects ==
  /\ [](/\ Cardinality(Live(page)) <= 1
        /\ Len(page.timers) = Cardinality(ClosedSockets(page))
        /\ Len(page.sockets) = 1 + Cardinality(Fired(page))
        /\ page.socket = Len(page.sockets))
  /\ [][\A s \in 1..Len(page.sockets) :
          (s \in Live(page) /\ s \in ClosedSockets(page')) =>
            /\ Len(page'.timers) = Len(page.timers) + 1
            /\ page'.timers[Len(page'.timers)] =
                 [left |-> 1000, fired |-> FALSE, by |-> s]
            /\ page'.sockets = [page.sockets EXCEPT ![s].state = "closed"]]_vars
  /\ [][Len(page'.sockets) > Len(page.sockets) =>
          \E t \in 1..Len(page.timers) :
            /\ page.timers[t].left = 0
            /\ ~page.timers[t].fired
            /\ page'.timers[t].fired]_vars
  /\ \A s \in SocketIds :
       (s \in ClosedSockets(page)) ~> (Len(page.sockets) > s)

\* A socket that had an error was closed and the next one is open.
C32_Witness ==
  /\ Len(page.sockets) = 2
  /\ page.sockets[1] = [state |-> "closed", errors |-> 1]
  /\ page.sockets[2].state = "open"
  /\ page.isConnected

\* ------------------------------------------------------------------------
\* Requests to a server whose directory varies (DevServer.handleRequest,
\* src/src/server.ts 138-161)
\* ------------------------------------------------------------------------
DocsIndex == <<"docs", "/", "index", ".", "html">>

\* The directories served: with and without a root index.html, a script and
\* a subdirectory with an index.html of its own.
RouteDirs == SUBSET {IndexHtml, AppTs, DocsIndex}

RouteUrls ==
  { <<"/">>, <<"/">> \o AppTs, <<"/", "gone", ".", "ts">>, <<"/", "route">>,
    <<"/", "docs", "/">>, <<"/", "docs">>, <<"/", "gone", "/">>, HmrClientUrl }

\* A GET arrives at a server whose directory holds the files of fs. readFile
\* throws for a directory and may throw for a file.
RouteBegin(pathname) ==
  /\ srv.listening
  /\ Len(srv.requests) < MaxRequests
  /\ \E readFails \in BOOLEAN :
       LET r == Len(srv.requests) + 1
           filePath == FileAmong(DOMAIN fs, pathname)
           arrived == [srv EXCEPT !.requests =
                         Append(@, [pathname |-> pathname, state |-> "arrived",
                                    filePath |-> NoPath, contentType |-> "",
                                    content |-> <<>>, finalContent |-> <<>>,
                                    i |-> 0, calls |-> <<>>, status |-> 0,
                                    body |-> <<>>, failed |-> ""])]
       IN  /\ readFails => pathname # HmrClientUrl /\ filePath # NoPath
           /\ (filePath # NoPath /\ filePath \notin DOMAIN fs /\ pathname # HmrClientUrl)
                => readFails
           /\ srv' = handleRequestOf(arrived, r, pathname, filePath, readFails)
  /\ UNCHANGED ServerVars

InitRoute ==
  /\ \E plugins \in SeqsUpTo(ServerPlugins, MaxServerPlugins) :
       srv = NewDevServer(plugins, TRUE, FALSE)
  /\ \E files \in RouteDirs : fs = [f \in files |-> ContentOf(f)]
  /\ page = PageIdle
  /\ hook = HookIdle
  /\ rs = ResolveIdle
  /\ ctx = <<>>
  /\ stack = <<>>
  /\ pc = [at |-> "idle", n |-> 0]
  /\ events = <<>>
  /\ written = <<>>

NextRoute ==
  \/ Start
  \/ \E pathname \in RouteUrls : RouteBegin(pathname)
  \/ \E r \in Requests : RequestCall(r)
  \/ \E r \in Requests : RequestThrow(r)

SpecRoute == InitRoute /\ [][NextRoute]_vars

\* The file a pathname names: index.html is appended to a path that ends in
\* "/", and the leading "/" is dropped.
Named(pathname) ==
  Tail(IF Last(pathname) = "/" THEN pathname \o IndexHtml ELSE pathname)

\* The pathname has an extension: it ends in a dot and a name.
HasExtension(pathname) ==
  Len(pathname) >= 2 /\ pathname[Len(pathname) - 1] = "."

\* The request q was answered from the file f: with status 200, or with 500
\* when reading or transforming f failed.
AnsweredFrom(q, f) ==
  /\ q.filePath = f
  /\ q.state = "sent" =>
       \/ q.status = 200 /\ q.failed = "" /\ SubSeq(q.body, 1, 1) = ContentOf(f)
       \/ q.status = 500 /\ q.failed # ""

\* C33: a request (the client endpoint apart) is answered from the file its
\* path names (index.html appended after a final "/") when that file exists;
\* when nothing exists there, from the root index.html if the path has no
\* extension and the root index.html exists; otherwise with 404 and without
\* any transform call. The answer of a request never changes once sent.
C33_OneOutcomeByFiles ==
  /\ [](\A r \in 1..Len(srv.requests) :
          LET q == srv.requests[r]
              f == Named(q.pathname)
              nothing == \A g \in DOMAIN fs : f # g /\ ~IsPrefix(Append(f, "/"), g)
          IN  q.pathname # HmrClientUrl =>
                /\ f \in DOMAIN fs => AnsweredFrom(q, f)
                /\ (nothing /\ ~HasExtension(q.pathname) /\ IndexHtml \in DOMAIN fs)
                     => AnsweredFrom(q, IndexHtml)
                /\ (nothing /\ (HasExtension(q.pathname) \/ IndexHtml \notin DOMAIN fs))
                     => /\ q.state = "sent" /\ q.status = 404
                        /\ q.calls = <<>> /\ q.filePath = NoPath)
  /\ [][\A r \in 1..Len(srv.requests) :
          srv.requests[r].state = "sent" => srv'.requests[r] = srv.requests[r]]_vars

\* A path without extension that names nothing was answered with the root
\* index.html, and a path with an extension that names nothing with 404.
C33_Witness ==
  /\ Len(srv.requests) = 2
  /\ srv.requests[1].pathname = <<"/", "route">>
  /\ srv.requests[1].status = 200
  /\ srv.requests[1].filePath = IndexHtml
  /\ srv.requests[2].pathname = <<"/", "gone", ".", "ts">>
  /\ srv.requests[2].status = 404

\* ------------------------------------------------------------------------
\* Builds of sources that hold a source-map comment already
\* (writeOutputs, src/src/build.ts 174-187)
\* ------------------------------------------------------------------------
\* a.ts ends in the comment; b.ts holds it before its last statement.
MapProjects ==
  GraphProjects
    \cup { Project(<<RelA, RelNope, RelB>>, <<RelB, SourceMapComment>>,
                   <<SourceMapComment, RelA>>),
           Project(<<RelA, SourceMapComment>>, <<NoImport>>, Missing) }

MapConfigs ==
  { [entry |-> [kind |-> "string", paths |-> <<EntryIndex>>], plugins |-> plugins,
     outDir |-> <<".", "/", "dist">>,
     alias |-> [t \in {AliasedA} |-> RelA], extensions |-> <<>>,
     sourcemap |-> sourcemap] :
      plugins \in SeqsUpTo(GraphPlugins, MaxPlugins), sourcemap \in BOOLEAN }

InitMaps ==
  /\ fs \in MapProjects
  /\ \E config \in MapConfigs : ctx = NoContext(config)
  /\ stack = <<>>
  /\ pc = [at |-> "create", n |-> 0]
  /\ events = <<>>
  /\ written = <<>>
  /\ hook = HookIdle
  /\ rs = ResolveIdle
  /\ srv = ServerIdle
  /\ page = PageIdle

SpecMaps == InitMaps /\ [][Next]_vars

\* The source-map comments of a text.
CommentsIn(text) == { k \in 1..Len(text) : text[k] = SourceMapComment }

\* C34: once the outputs are written, a module's <output>.map file exists
\* exactly when its stored output has a map and source maps are enabled; then
\* the code written ends with a source-map comment and holds no other, and
\* is the stored code or the stored code with the comment appended, the
\* latter only when the stored code held none; without a map file the code
\* written is the stored code.
C34_MapFileAndComment ==
  pc.at \in {"closeBundle", "done"} =>
    \A m \in MapKeys(ctx.outputs) :
      LET stored == MapGet(ctx.outputs, m)
          finalPath == FinalPath(ctx.config, m)
          mapped == stored.map # 0 /\ ctx.config.sourcemap
          text == written[finalPath].code.text
      IN  /\ MapPath(finalPath) \in DOMAIN written <=> mapped
          /\ ~mapped => written[finalPath].code = stored.code
          /\ mapped =>
               /\ text # <<>> /\ Last(text) = SourceMapComment
               /\ Cardinality(CommentsIn(text)) = 1
               /\ \/ text = stored.code.text
                  \/ /\ text = Append(stored.code.text, SourceMapComment)
                     /\ CommentsIn(stored.code.text) = {}

\* ------------------------------------------------------------------------
\* Change events that arrive while earlier ones are still handled
\* (DevServer.startWatcher, src/src/server.ts 220-258)
\* ------------------------------------------------------------------------
MaxOverlap == 2

OverlapPaths == {AppTs, LibJs, StyleCss}

\* watcher.on('change', path): the emitter calls the async listener at once,
\* whatever the listeners of earlier events still await.
ChangeArrives(path) ==
  /\ srv.watcher = "watching"
  /\ Len(srv.changes) < MaxOverlap
  /\ srv' = ChangeProceed([srv EXCEPT !.changes = Append(@, ChangeEvent(path))],
                          Len(srv.changes) + 1)
  /\ UNCHANGED ServerVars

InitOverlap ==
  /\ \E plugins \in SeqsUpTo(ServerPlugins, MaxServerPlugins) :
       srv = NewDevServer(plugins, TRUE, TRUE)
  /\ page = PageIdle
  /\ hook = HookIdle
  /\ rs = ResolveIdle
  /\ BuildIdle

Overlaps == 1..MaxOverlap

NextOverlap ==
  \/ Start
  \/ Tick
  \/ \E c \in Sockets : Connect(c)
  \/ \E path \in OverlapPaths : ChangeArrives(path)
  \/ \E k \in Overlaps : ChangeCall(k)
  \/ \E k \in Overlaps : ChangeThrow(k)

SpecOverlap == InitOverlap /\ [][NextOverlap]_vars

\* A hook that is awaited settles: it returns or it throws.
SpecOverlapFair ==
  /\ SpecOverlap
  /\ \A k \in Overlaps : WF_vars(ChangeCall(k) \/ ChangeThrow(k))

\* The broadcasts made for the change event k.
BroadcastsOf(k) == { j \in 1..Len(srv.sent) : srv.sent[j].change = k }

\* C36: the messages are broadcast in the order in which their change events
\* arrived, and the timestamps of successive update messages never decrease.
C36_BroadcastInArrivalOrder ==
  \A i, j \in 1..Len(srv.sent) :
    i < j =>
      /\ srv.sent[i].change < srv.sent[j].change
      /\ (srv.sent[i].data.type = "update" /\ srv.sent[j].data.type = "update")
           => srv.sent[i].data.timestamp <= srv.sent[j].data.timestamp

\* C37: every change event delivered by the watcher is eventually followed
\* by its broadcast, exactly one, also when one of its hooks failed.
C37_EveryChangeBroadcasts ==
  /\ [](\A k \in 1..Len(srv.changes) : Cardinality(BroadcastsOf(k)) <= 1)
  /\ \A k \in Overlaps :
       (Len(srv.changes) >= k) ~> (Cardinality(BroadcastsOf(k)) = 1)

====
